---- MODULE Spec2Model ----
(***************************************************************************)
(* Parcel lookup: identifier validation and reshaping, parcel location,    *)
(* jurisdiction resolution, layer discovery and zoning/FLU routing, as     *)
(* implemented in src/app.py, src/arcgis_utils.py and src/streamlit_app.py. *)
(*                                                                         *)
(* Text is a sequence of one-character strings, so that slicing,           *)
(* stripping, splitting and quoting are computed character by character.   *)
(***************************************************************************)
EXTENDS Integers, Sequences, FiniteSets, TLC

VARIABLES
    input,      \* text handed to a text helper of app.py
    fn,         \* helper applied to input ("none" before any)
    result,     \* what the helper returned
    county,     \* app.py: the county selectbox
    parcel_id_input,    \* app.py: the parcel / folio text input
    session,    \* app.py: st.session_state
    sent,       \* requests issued by the handler that ran last, in order
    answered,   \* the responses those requests got, in the same order
    shown,      \* what the handler that ran last reported to the user
    routed,     \* app.py: the last Pinellas zoning routing decision
    prevRouted, \* app.py: the routing decision before that
    stage,      \* streamlit_app.py: where the running lookup stands
    pid,        \* the parcel id pinellas_lookup was called with
    geom,       \* the parcel geometry it located
    jurisdiction,   \* the jurisdiction it resolved
    branch,     \* the branch its router took ("none" before)
    layers,     \* the zoning and FLU layer URLs the branch gave
    discovery,  \* what cached_discover_city_layers returned
    zoning,     \* the zoning reading
    flu,        \* the FLU reading
    outcome,    \* what the Lookup handler showed
    cache,      \* st.cache_data of cached_discover_city_layers
    calling,    \* the external HTTP call under way ("none" before any)
    tries,      \* the responses its attempts got so far, in order
    callDone,   \* the call has returned or raised
    clock,      \* the clock of the caches, in seconds
    store,      \* the entries st.cache_data holds for the cached functions
    work,       \* what each session's resolution under way has got to
    log,        \* the resolutions that have returned, in order
    applied,    \* the function of arcgis_utils.py or streamlit_app.py applied ("none" before)
    args,       \* the arguments it was applied to
    returned    \* what it returned

textVars == <<input, fn, result>>

appVars == <<county, parcel_id_input, session, sent, answered, shown, routed, prevRouted>>

lookupVars ==
    <<stage, pid, geom, jurisdiction, branch, layers, discovery, zoning, flu, outcome, cache>>

netVars == <<calling, tries, callDone>>

cacheVars == <<clock, store, work, log>>

pureVars == <<applied, args, returned>>

sideVars == <<netVars, cacheVars, pureVars>>

vars == <<textVars, appVars, lookupVars, sideVars>>

-----------------------------------------------------------------------------
(* Characters and text                                                     *)

Digits == {"0", "1", "2", "3", "4", "5", "6", "7", "8", "9"}
Letters == {"a"}
\* str.strip() and the regex class \s take every whitespace character;
\* str.split(' ', 1) takes the space character alone.
Whitespace == {" ", "\t"}
Quote == "'"
Dash == "-"
Period == "."

\* Characters of the exhaustively enumerated short texts.
Chars == {"1", "a", "-", " ", "\t", ".", "'"}

\* Longest exhaustively enumerated text.
MaxLen == 4

\* len(parcel_id) > 30
MaxIdLen == 30

\* len(normalized_parcel) == 18
PinellasIdLen == 18

IsDigit(c) == c \in Digits

AllDigits(s) == \A i \in 1..Len(s) : IsDigit(s[i])

Has(s, c) == \E i \in 1..Len(s) : s[i] = c

Rep(c, n) == [i \in 1..n |-> c]

RECURSIVE LStrip(_)
LStrip(s) ==
    IF s # <<>> /\ Head(s) \in Whitespace THEN LStrip(Tail(s)) ELSE s

RECURSIVE RStrip(_)
RStrip(s) ==
    IF s # <<>> /\ s[Len(s)] \in Whitespace
    THEN RStrip(SubSeq(s, 1, Len(s) - 1))
    ELSE s

\* str.strip()
Strip(s) == RStrip(LStrip(s))

\* str.replace(old, new) for a one-character old
RECURSIVE Replace(_, _, _)
Replace(s, old, new) ==
    IF s = <<>> THEN <<>>
    ELSE (IF Head(s) = old THEN new ELSE <<Head(s)>>) \o Replace(Tail(s), old, new)

\* Index of the first space character of s, 0 when there is none.
RECURSIVE FirstSpaceFrom(_, _)
FirstSpaceFrom(s, i) ==
    IF i > Len(s) THEN 0
    ELSE IF s[i] = " " THEN i
    ELSE FirstSpaceFrom(s, i + 1)

FirstSpace(s) == FirstSpaceFrom(s, 1)

-----------------------------------------------------------------------------
(* Text helpers of app.py                                                  *)

\* The character class [A-Za-z0-9\-\s\.] of validate_parcel_id.
AllowedChar(c) ==
    \/ c \in Letters
    \/ c \in Digits
    \/ c = Dash
    \/ c \in Whitespace
    \/ c = Period

AllAllowed(s) == \A i \in 1..Len(s) : AllowedChar(s[i])

MsgEmpty == "Parcel ID cannot be empty"
MsgTooLong == "Parcel ID must be 30 characters or less"
MsgInvalid == "Invalid characters in parcel ID"

Verdict(ok, msg) == [ok |-> ok, msg |-> msg, text |-> <<>>]
TextResult(t) == [ok |-> TRUE, msg |-> "", text |-> t]

\* A slip in the order of the checks: the character test before the length test.
validate_parcel_id_charsfirst(parcel_id) ==
    IF parcel_id = <<>> THEN Verdict(FALSE, MsgEmpty)
    ELSE IF ~AllAllowed(parcel_id) THEN Verdict(FALSE, MsgInvalid)
    ELSE IF Len(parcel_id) > MaxIdLen THEN Verdict(FALSE, MsgTooLong)
    ELSE Verdict(TRUE, "")

validate_parcel_id(parcel_id) ==
    IF parcel_id = <<>> THEN Verdict(FALSE, MsgEmpty)
    ELSE IF Len(parcel_id) > MaxIdLen THEN Verdict(FALSE, MsgTooLong)
    ELSE IF ~AllAllowed(parcel_id) THEN Verdict(FALSE, MsgInvalid)
    ELSE Verdict(TRUE, "")

sanitize_for_sql(value) == Replace(Strip(value), Quote, <<Quote, Quote>>)

strip_dor_code(land_use_text) ==
    IF land_use_text = <<>> THEN <<>>
    ELSE LET text == Strip(land_use_text)
             sp == FirstSpace(text)
         IN  IF text # <<>> /\ IsDigit(text[1]) /\ sp > 0
             THEN Strip(SubSeq(text, sp + 1, Len(text)))
             ELSE text

\* A slip in one slice: the five-digit group taken one character short.
normalized_parcel_shortslice(parcel_id) ==
    LET p == Strip(parcel_id)
    IN  IF ~Has(p, Dash) /\ Len(p) = PinellasIdLen
        THEN SubSeq(p, 1, 2) \o <<Dash>> \o SubSeq(p, 3, 4) \o <<Dash>>
             \o SubSeq(p, 5, 6) \o <<Dash>> \o SubSeq(p, 7, 10) \o <<Dash>>
             \o SubSeq(p, 12, 14) \o <<Dash>> \o SubSeq(p, 15, 18)
        ELSE p

\* The identifier reshaping of scrape_pinellas_property.
normalized_parcel(parcel_id) ==
    LET p == Strip(parcel_id)
    IN  IF ~Has(p, Dash) /\ Len(p) = PinellasIdLen
        THEN SubSeq(p, 1, 2) \o <<Dash>> \o SubSeq(p, 3, 4) \o <<Dash>>
             \o SubSeq(p, 5, 6) \o <<Dash>> \o SubSeq(p, 7, 11) \o <<Dash>>
             \o SubSeq(p, 12, 14) \o <<Dash>> \o SubSeq(p, 15, 18)
        ELSE p

-----------------------------------------------------------------------------
(* Texts the helpers are applied to                                        *)

RECURSIVE SeqsUpTo(_, _)
SeqsUpTo(S, n) ==
    IF n = 0 THEN {<<>>}
    ELSE LET shorter == SeqsUpTo(S, n - 1)
         IN  shorter \cup {Append(s, c) : s \in {t \in shorter : Len(t) = n - 1}, c \in S}

ShortTexts == SeqsUpTo(Chars, MaxLen)

Group2 == {<<"1", "9">>, <<"0", "1">>}
Group3 == {<<"0", "0", "1">>, <<"9", "1", "0">>}
Group4 == {<<"0", "0", "1", "0">>, <<"9", "9", "0", "1">>}
Group5 == {<<"7", "3", "1", "6", "6">>, <<"0", "0", "1", "0", "9">>}

\* Undashed 18-digit Pinellas identifiers.
UndashedIds ==
    {a \o b \o c \o d \o e \o f :
        a \in Group2, b \in Group2, c \in Group2, d \in Group5, e \in Group3, f \in Group4}

\* 193117731660010010
BaseId == <<"1", "9", "3", "1", "1", "7", "7", "3", "1", "6", "6", "0", "0", "1", "0", "0", "1", "0">>

PerturbChars == {"a", "-", "'", " ", "9"}

\* BaseId with one character replaced, one inserted, or one removed.
PerturbedIds ==
    {[BaseId EXCEPT ![i] = c] : i \in 1..Len(BaseId), c \in PerturbChars}
    \cup {SubSeq(BaseId, 1, i) \o <<c>> \o SubSeq(BaseId, i + 1, Len(BaseId)) :
            i \in 0..Len(BaseId), c \in PerturbChars}
    \cup {SubSeq(BaseId, 1, i - 1) \o SubSeq(BaseId, i + 1, Len(BaseId)) :
            i \in 1..Len(BaseId)}

\* Texts around the length limit, with and without a character off the allow-list.
LongTexts ==
    {Rep(c, n) : c \in {"1", "'"}, n \in (MaxIdLen - 1)..(MaxIdLen + 1)}
    \cup {Append(Rep("1", n), "'") : n \in (MaxIdLen - 2)..MaxIdLen}

Inputs == ShortTexts \cup UndashedIds \cup PerturbedIds \cup LongTexts

-----------------------------------------------------------------------------
(* Upstream exchanges                                                      *)

\* A key absent from a JSON object, and JSON null / Python None.
Missing == "MISSING"
Null == "NULL"

\* dict.get(k, d): the default only when the key is absent.
Get(attrs, k, d) == IF k \in DOMAIN attrs THEN attrs[k] ELSE d

\* Python truthiness of the scalar values the model uses.
Truthy(v) == v \notin {Null, Missing, ""}

\* a or b
Or(a, b) == IF Truthy(a) THEN a ELSE b

\* One HTTP exchange: http is "ok", "transient" (status 429, 500, 502, 503 or
\* 504), "client" (another 4xx status) or "unreachable" (no response at all);
\* json tells whether the body parses as JSON; payload is what the body carries.
Http(http, json, payload) == [http |-> http, json |-> json, payload |-> payload]

Unreachable == Http("unreachable", FALSE, <<>>)
\* An error status whose body is a JSON error object: it has no features.
ServerErrorJson == Http("transient", TRUE, <<>>)
ClientErrorJson == Http("client", TRUE, <<>>)
\* A 200 answer whose body does not parse.
Garbled == Http("ok", FALSE, <<>>)

Failures == {Unreachable, ServerErrorJson, ClientErrorJson, Garbled}

\* The request itself failed: network error, HTTP error status, malformed body.
RequestFailed(r) == r.http # "ok" \/ ~r.json

\* requests.get(...) followed by .json(), with no raise_for_status(): only a
\* connection failure or an unparsable body raises.
RaisesUnchecked(r) == r.http = "unreachable" \/ ~r.json

\* The same through get_resilient_session(): a status of the retry list raises
\* once the retries are used up; another error status does not.
RaisesSession(r) == r.http \in {"unreachable", "transient"} \/ ~r.json

\* With raise_for_status() before .json(): every error status raises.
RaisesChecked(r) == r.http # "ok" \/ ~r.json

\* A request as it leaves the program.  literal is the quoted literal of an
\* attribute filter (field = literal), empty for requests that carry none.
Req(to, arg, field, literal) == [to |-> to, arg |-> arg, field |-> field, literal |-> literal]

\* f"{field} = '{value}'": the value between single quotes, as it is.
QuotedRaw(value) == <<Quote>> \o value \o <<Quote>>

-----------------------------------------------------------------------------
(* app.py: Pinellas property lookup                                        *)

\* Keys of PINELLAS_CITY_MAP met by the sampled tax districts.
PINELLAS_CITY_MAP ==
    [k \in {"SP", "CW", "LARGO", "DUNEDIN", "LFPW"} |->
        CASE k = "SP" -> "St. Petersburg"
          [] k = "CW" -> "Clearwater"
          [] k = "LARGO" -> "Largo"
          [] k = "DUNEDIN" -> "Dunedin"
          [] k = "LFPW" -> "Unincorporated Pinellas (Lealman)"]

\* Tax districts as the appraiser reports them; "" when the column is empty.
TaxDistricts == {"SP", "cw", "LARGO", "LFPW", "DUNEDIN"}

\* city_abbr.strip().upper() on the sampled tax districts.
StripUpper(t) == IF t = "cw" THEN "CW" ELSE t

expand_city_name(city_abbr) ==
    IF ~Truthy(city_abbr) THEN "Unincorporated Pinellas"
    ELSE LET city_upper == StripUpper(city_abbr)
         IN  IF city_upper \in DOMAIN PINELLAS_CITY_MAP
             THEN PINELLAS_CITY_MAP[city_upper]
             ELSE city_abbr

\* The fields every property lookup returns (Missing: the key is not set).
Parcel(address, city, zip, owner, land_use, zoning_text, sqft, acres, flu_text, geometry) ==
    [success |-> TRUE, error |-> Null, address |-> address, city |-> city, zip |-> zip,
     owner |-> owner, land_use |-> land_use, zoning |-> zoning_text, site_area_sqft |-> sqft,
     site_area_acres |-> acres, flu |-> flu_text, geometry |-> geometry]

Failure(error) == [success |-> FALSE, error |-> error]

\* The text of an exception caught by `except Exception as e`.
ExcText == "exception"

ErrPcpaoNotFound == "Parcel not found in PCPAO database"
ErrPcpaoNoData == "No property data returned"
ErrPcpaoExc == "Error querying PCPAO API: exception"
ContactCityCounty == "Contact City/County for zoning info"

\* Rows of the appraiser's search result, as the text of their HTML columns.
PcpaoRows ==
    {[owner |-> "JOHN DOE", address |-> a, tax_district |-> t,
      property_use |-> <<"0", "0", "1", "7", " ", "Office buildings, one story">>] :
        a \in {"200 CENTRAL AVE"}, t \in TaxDistricts}

\* Answers of the searchProperty POST.
PcpaoAnswers ==
    {Unreachable, ServerErrorJson, Garbled}
    \cup {Http("ok", TRUE, [recordsTotal |-> 0, data |-> <<>>]),
          Http("ok", TRUE, [recordsTotal |-> 1, data |-> <<>>])}
    \cup {Http("ok", TRUE, [recordsTotal |-> 1, data |-> <<row>>]) : row \in PcpaoRows}

\* Answers of the property-details GET: the land area and ZIP found in the page.
DetailAnswers ==
    {Unreachable,
     Http("ok", FALSE, [sqft |-> "59,560", acres |-> "1.36", zip |-> "33703"]),
     Http("ok", FALSE, [sqft |-> Null, acres |-> Null, zip |-> Null])}

\* scrape_pinellas_property: the requests it issues and what it returns.
\* The detail page is read with .text, inside its own try/except.
scrape_pinellas_property(parcel_id, search, detail) ==
    LET normalized == normalized_parcel(parcel_id)
        post == Req("pcpao_search", normalized, "input", <<>>)
        page == Req("pcpao_detail", normalized, "input", <<>>)
    IN  IF RaisesChecked(search)
        THEN [result |-> Failure(ErrPcpaoExc), sent |-> <<post>>, answered |-> <<search>>]
        ELSE IF search.payload.recordsTotal = 0
        THEN [result |-> Failure(ErrPcpaoNotFound), sent |-> <<post>>, answered |-> <<search>>]
        ELSE IF search.payload.data = <<>>
        THEN [result |-> Failure(ErrPcpaoNoData), sent |-> <<post>>, answered |-> <<search>>]
        ELSE LET row == search.payload.data[1]
                 found == detail.http \notin {"unreachable", "transient"}
                 sqft == IF found THEN detail.payload.sqft ELSE Null
                 acres == IF found THEN detail.payload.acres ELSE Null
                 zip == IF found THEN detail.payload.zip ELSE Null
             IN  [result |-> Parcel(row.address, expand_city_name(row.tax_district),
                                    Or(zip, ""), row.owner,
                                    strip_dor_code(row.property_use), ContactCityCounty,
                                    sqft, acres, Missing, Missing),
                  sent |-> <<post, page>>, answered |-> <<search, detail>>]

-----------------------------------------------------------------------------
(* app.py: Hillsborough and Pasco property lookup                          *)

\* s.split('.')[0]
RECURSIVE BeforeFirst(_, _)
BeforeFirst(s, c) ==
    IF s = <<>> \/ Head(s) = c THEN <<>> ELSE <<Head(s)>> \o BeforeFirst(Tail(s), c)

\* folio_formats of lookup_hillsborough_parcel
folio_formats(folio) ==
    <<folio,
      Replace(folio, Period, <<>>),
      IF Has(folio, Period) THEN BeforeFirst(folio, Period) ELSE folio>>

\* parcel_formats of lookup_pasco_parcel
parcel_formats(parcel_id) == <<parcel_id, Replace(parcel_id, Dash, <<>>)>>

\* Entries of DOR_LAND_USE_CODES met by the sampled parcels.
DOR_LAND_USE_CODES == [k \in {"0017"} |-> <<"Office Buildings, One Story">>]

\* get_land_use_description on the four-digit codes of the sampled parcels.
get_land_use_description(code) ==
    IF ~Truthy(code) THEN <<>>
    ELSE IF code \in DOMAIN DOR_LAND_USE_CODES THEN DOR_LAND_USE_CODES[code]
    ELSE <<code>>

\* f"{float(acres):.2f}" on the sampled areas.
FormatAcres(acres) == IF acres = "1.5" THEN "1.50" ELSE acres

\* Parcel features of the SWFWMD parcel_search service.
SwfwmdFeatures ==
    {[attributes |-> [SITEADD |-> "100 MAIN ST", SCITY |-> "Tampa", SZIP |-> "33602",
                      OWNNAME |-> "JANE ROE", ACRES |-> "1.5", DORUSECODE |-> "0017",
                      PARUSEDESC |-> <<"0", "8", "6">>, ZONING |-> "RS"],
      geometry |-> "rings1"],
     [attributes |-> [SITUSADD1 |-> "7 OAK LN", OWNERNAME |-> "JANE ROE", ACRES |-> Null,
                      PARUSEDESC |-> <<"Vacant Commercial">>],
      geometry |-> Null]}

\* Answers of one parcel query.
ParcelAnswers ==
    {Unreachable, ServerErrorJson, Garbled}
    \cup {Http("ok", TRUE, <<>>)}
    \cup {Http("ok", TRUE, <<f>>) : f \in SwfwmdFeatures}

ErrFolioNotFound == "Folio not found"
ErrParcelNotFound == "Parcel not found"

\* A slip in the loop: the break is missing, every format is queried and the
\* first answer with features is kept.
RECURSIVE TryFormats_nobreak(_, _, _, _, _)
TryFormats_nobreak(field, formats, answers, i, sentSoFar) ==
    IF i > Len(formats) THEN [sent |-> sentSoFar, hit |-> 0, raised |-> FALSE]
    ELSE LET req == Req("parcel_source", formats[i], field, QuotedRaw(formats[i]))
             now == Append(sentSoFar, req)
             rest == TryFormats_nobreak(field, formats, answers, i + 1, now)
         IN  IF RaisesUnchecked(answers[i]) THEN [sent |-> now, hit |-> 0, raised |-> TRUE]
             ELSE IF answers[i].payload # <<>>
             THEN [sent |-> rest.sent, hit |-> i, raised |-> rest.raised]
             ELSE rest

\* The loop over the identifier formats: one query per format until one answers
\* with features.  Gives the requests issued, the index of the answer that had
\* features (0: none) and whether a request raised.
RECURSIVE TryFormats(_, _, _, _, _)
TryFormats(field, formats, answers, i, sentSoFar) ==
    IF i > Len(formats) THEN [sent |-> sentSoFar, hit |-> 0, raised |-> FALSE]
    ELSE LET req == Req("parcel_source", formats[i], field, QuotedRaw(formats[i]))
             now == Append(sentSoFar, req)
         IN  IF RaisesUnchecked(answers[i]) THEN [sent |-> now, hit |-> 0, raised |-> TRUE]
             ELSE IF answers[i].payload # <<>> THEN [sent |-> now, hit |-> i, raised |-> FALSE]
             ELSE TryFormats(field, formats, answers, i + 1, now)

lookup_hillsborough_parcel(folio, answers) ==
    LET tried == TryFormats("FOLIONUM", folio_formats(folio), answers, 1, <<>>)
        got == SubSeq(answers, 1, Len(tried.sent))
    IN  IF tried.raised
        THEN [result |-> Failure(ExcText), sent |-> tried.sent, answered |-> got]
        ELSE IF tried.hit = 0
        THEN [result |-> Failure(ErrFolioNotFound), sent |-> tried.sent, answered |-> got]
        ELSE LET feature == answers[tried.hit].payload[1]
                 attrs == feature.attributes
                 acres == Or(Get(attrs, "ACRES", Null), Get(attrs, "AREANO", Null))
                 dor_code == Or(Get(attrs, "DORUSECODE", Null), Get(attrs, "DOR4CODE", Null))
             IN  [result |->
                      Parcel(Get(attrs, "SITEADD", Get(attrs, "SITUSADD1", "")),
                             Get(attrs, "SCITY", "Tampa"),
                             Get(attrs, "SZIP", ""),
                             Get(attrs, "OWNNAME", Get(attrs, "OWNERNAME", "")),
                             IF Truthy(dor_code) THEN get_land_use_description(dor_code)
                             ELSE Get(attrs, "PARUSEDESC", <<>>),
                             Get(attrs, "ZONING", ""),
                             "",
                             IF Truthy(acres) THEN FormatAcres(acres) ELSE "",
                             Missing,
                             feature.geometry),
                  sent |-> tried.sent, answered |-> got]

\* Entries of PASCO_USE_CODES met by the sampled parcels.
PASCO_USE_CODES == [k \in {<<"8", "6">>} |-> <<"County Buildings">>]

\* s.lstrip('0')
RECURSIVE LStripZeros(_)
LStripZeros(s) == IF s # <<>> /\ Head(s) = "0" THEN LStripZeros(Tail(s)) ELSE s

get_pasco_use_description(code) ==
    IF code = <<>> THEN <<>>
    ELSE LET code_str == Strip(code)
             stripped == IF LStripZeros(code_str) = <<>> THEN <<"0", "0">>
                         ELSE LStripZeros(code_str)
         IN  IF \E i \in 1..Len(code_str) : code_str[i] \in Letters THEN code_str
             ELSE IF stripped \in DOMAIN PASCO_USE_CODES THEN PASCO_USE_CODES[stripped]
             ELSE stripped

\* PARUSEDESC as the land use: a numeric code is converted, text is kept.
PascoLandUse(parusedesc) ==
    LET digits == Replace(Strip(parusedesc), Period, <<>>)
    IN  IF parusedesc # <<>> /\ digits # <<>> /\ AllDigits(digits)
        THEN get_pasco_use_description(Strip(parusedesc))
        ELSE parusedesc

lookup_pasco_parcel(parcel_id, answers) ==
    LET tried == TryFormats("PARCELID", parcel_formats(parcel_id), answers, 1, <<>>)
        got == SubSeq(answers, 1, Len(tried.sent))
    IN  IF tried.raised
        THEN [result |-> Failure(ExcText), sent |-> tried.sent, answered |-> got]
        ELSE IF tried.hit = 0
        THEN [result |-> Failure(ErrParcelNotFound), sent |-> tried.sent, answered |-> got]
        ELSE LET feature == answers[tried.hit].payload[1]
                 attrs == feature.attributes
                 acres == Or(Get(attrs, "ACRES", Null), Get(attrs, "AREANO", Null))
             IN  [result |->
                      Parcel(Or(Get(attrs, "SITEADD", Null),
                                Or(Get(attrs, "SITUSADD1", Null),
                                   Or(Get(attrs, "MAILADD", Null), ""))),
                             Or(Get(attrs, "SCITY", Null), Or(Get(attrs, "MCITY", Null), "")),
                             Or(Get(attrs, "SZIP", Null), Or(Get(attrs, "MZIP", Null), "")),
                             Get(attrs, "OWNNAME", Get(attrs, "OWNERNAME", "")),
                             PascoLandUse(Get(attrs, "PARUSEDESC", <<>>)),
                             "",
                             "",
                             IF Truthy(acres) THEN FormatAcres(acres) ELSE "",
                             "",
                             feature.geometry),
                  sent |-> tried.sent, answered |-> got]

-----------------------------------------------------------------------------
(* app.py: zoning / FLU lookups                                            *)

\* A scalar as a text: '' is the empty text, None the text <<Null>>.
T(v) == IF v = "" THEN <<>> ELSE <<v>>

\* Truthiness of a text.
TruthyText(t) == t \notin {<<>>, <<Null>>, <<Missing>>}

\* What a zoning lookup returns on success, its four values as texts.
Zoning(zoning_code, zoning_description, future_land_use, future_land_use_description) ==
    [success |-> TRUE, zoning_code |-> T(zoning_code),
     zoning_description |-> T(zoning_description), future_land_use |-> T(future_land_use),
     future_land_use_description |-> T(future_land_use_description)]

\* The entries of the static code tables met by the sampled layer features.
ZONING_DESCRIPTIONS == [k \in {"NT-1"} |-> "NEIGHBORHOOD TRADITIONAL SINGLE-FAMILY-1"]
FLU_DESCRIPTIONS == [k \in {"RM"} |-> "Residential Medium"]
UNINCORPORATED_ZONING_DESCRIPTIONS ==
    [k \in {"RM"} |-> "Multi-Family Residential (see FLUM for density)"]
UNINCORPORATED_FLU_DESCRIPTIONS == [k \in {"RM"} |-> "Residential Medium"]
HILLSBOROUGH_FLU_CODES == [k \in {"LI"} |-> "Light Industrial"]
PASCO_ZONING_DESCRIPTIONS == [k \in {"RM"} |-> "Residential Medium"]

\* table.get(code, default)
Lookup(table, code, default) == IF code \in DOMAIN table THEN table[code] ELSE default

\* A feature of a zoning or FLU layer.  CODE and DESC stand for the layer's own
\* code and description fields (ZONECLASS / ZONEDESC, ZONING / ZONING_DESC,
\* NZONE / NZONE_DESC, ZN_TYPE, LANDUSECODE, LU, FLUE, FLU_CODE / DESCRIPTION,
\* Countywide_Plan_Map_Category_1).
LayerFeatures == {[attributes |-> [CODE |-> "RM", DESC |-> "layer text"]]}

\* Answers of a spatial query of a zoning or FLU layer.
LayerAnswers ==
    {Unreachable, ServerErrorJson, Http("ok", TRUE, <<>>)}
    \cup {Http("ok", TRUE, <<f>>) : f \in LayerFeatures}

\* Answers of the geocoder: its first candidate's location, if any.
GeocodeAnswers == {Unreachable, Http("ok", TRUE, <<>>), Http("ok", TRUE, <<"point1">>)}

\* A layer's coded-value domain as fetch_coded_values returns it.
LayerDomain == [k \in {"RM"} |-> "Residential Medium (domain)"]
NoDomain == [k \in {} |-> ""]

\* What one call of the cached fetch_coded_values does: it answers from the
\* cache (no request) or fetches the layer metadata, and gives the domain or {}.
CodedValueCalls ==
    {[fetched |-> f, map |-> m] : f \in BOOLEAN, m \in {LayerDomain, NoDomain}}

MetaReq(layer, field) == Req("layer_metadata", layer, field, <<>>)
GeocodeReq(address) == Req("geocode", address, "SingleLine", <<>>)
LayerReq(layer, point) == Req(layer, point, "geometry", <<>>)

\* The metadata request of one fetch_coded_values call, if it was not cached.
MetaSent(call, layer, field) == IF call.fetched THEN <<MetaReq(layer, field)>> ELSE <<>>

Out(res, reqs) == [result |-> res, sent |-> reqs]

\* The same, with the branch the Pinellas router took.
Via(taken, out) == [result |-> out.result, sent |-> out.sent, branch |-> taken]

ErrAddressRequired == "Address required for zoning lookup"
ErrGeocode == "Could not geocode address"
ErrNoZoning == "No zoning found at address location"
ErrLargo == "Could not retrieve Countywide Plan category from Largo parcel layer"
ContactCity == "Contact City for zoning"

\* First feature's attributes of a layer answer that did not raise.
FirstAttrs(answer) == answer.payload[1].attributes

lookup_stpete_zoning(address, geo, z, f) ==
    LET g == <<GeocodeReq(address)>>
    IN  IF RaisesSession(geo) THEN Out(Failure(ExcText), g)
        ELSE IF geo.payload = <<>> THEN Out(Failure(ErrGeocode), g)
        ELSE LET gz == Append(g, LayerReq("stpete_zoning", geo.payload[1]))
             IN  IF RaisesSession(z) THEN Out(Failure(ExcText), gz)
                 ELSE IF z.payload = <<>> THEN Out(Failure(ErrNoZoning), gz)
                 ELSE LET gzf == Append(gz, LayerReq("stpete_flu", geo.payload[1]))
                          zoning_code == Get(FirstAttrs(z), "CODE", "")
                          zoning_desc == Lookup(ZONING_DESCRIPTIONS, zoning_code,
                                                Get(FirstAttrs(z), "DESC", ""))
                          flu_code == IF f.payload = <<>> THEN ""
                                      ELSE Get(FirstAttrs(f), "CODE", "")
                          flu_desc == IF f.payload = <<>> THEN ""
                                      ELSE Lookup(FLU_DESCRIPTIONS, flu_code, "")
                      IN  IF RaisesSession(f) THEN Out(Failure(ExcText), gzf)
                          ELSE Out(Zoning(zoning_code, zoning_desc, flu_code, flu_desc), gzf)

lookup_clearwater_zoning(address, geo, z, f, fluCall) ==
    LET g == <<GeocodeReq(address)>>
    IN  IF RaisesSession(geo) THEN Out(Failure(ExcText), g)
        ELSE IF geo.payload = <<>> THEN Out(Failure(ErrGeocode), g)
        ELSE LET gz == Append(g, LayerReq("clearwater_zoning", geo.payload[1]))
                 gzf == gz \o MetaSent(fluCall, "clearwater_flu", "LU")
                           \o <<LayerReq("clearwater_flu", geo.payload[1])>>
                 zoning_code == IF z.payload = <<>> THEN ""
                                ELSE Get(FirstAttrs(z), "CODE", "")
                 zoning_desc == IF z.payload = <<>> THEN ""
                                ELSE Get(FirstAttrs(z), "DESC", "")
                 flu_code == IF f.payload = <<>> THEN "" ELSE Get(FirstAttrs(f), "CODE", "")
                 flu_desc == IF f.payload = <<>> THEN ""
                             ELSE Lookup(fluCall.map, flu_code, "")
             IN  IF RaisesSession(z) THEN Out(Failure(ExcText), gz)
                 ELSE IF RaisesSession(f) THEN Out(Failure(ExcText), gzf)
                 ELSE Out(Zoning(zoning_code, zoning_desc, flu_code, flu_desc), gzf)

lookup_largo_zoning(address, geo, f) ==
    LET g == <<GeocodeReq(address)>>
    IN  IF RaisesSession(geo) THEN Out(Failure(ExcText), g)
        ELSE IF geo.payload = <<>> THEN Out(Failure(ErrGeocode), g)
        ELSE LET gf == Append(g, LayerReq("largo_parcels", geo.payload[1]))
                 flu_value == IF f.payload = <<>> THEN ""
                              ELSE Get(FirstAttrs(f), "CODE", "")
             IN  IF RaisesSession(f) THEN Out(Failure(ExcText), gf)
                 ELSE IF Truthy(flu_value)
                 THEN Out(Zoning(flu_value, Null, flu_value, Null), gf)
                 ELSE Out(Failure(ErrLargo), gf)

lookup_unincorporated_zoning(address, geo, z, f, zoningCall, fluCall) ==
    LET m == MetaSent(zoningCall, "unincorporated_zoning", "ZONEDESC")
             \o MetaSent(fluCall, "unincorporated_flu", "LANDUSEDESC")
        zoning_lookup == IF DOMAIN zoningCall.map = {}
                         THEN UNINCORPORATED_ZONING_DESCRIPTIONS ELSE zoningCall.map
        flu_lookup == IF DOMAIN fluCall.map = {}
                      THEN UNINCORPORATED_FLU_DESCRIPTIONS ELSE fluCall.map
        mg == Append(m, GeocodeReq(address))
    IN  IF RaisesSession(geo) THEN Out(Failure(ExcText), mg)
        ELSE IF geo.payload = <<>> THEN Out(Failure(ErrGeocode), mg)
        ELSE LET mgz == Append(mg, LayerReq("unincorporated_zoning", geo.payload[1]))
                 mgzf == Append(mgz, LayerReq("unincorporated_flu", geo.payload[1]))
                 zoning_code == IF z.payload = <<>> THEN ""
                                ELSE Get(FirstAttrs(z), "CODE", "")
                 zoning_desc == IF z.payload = <<>> THEN ""
                                ELSE Lookup(zoning_lookup, zoning_code, "")
                 flu_code == IF f.payload = <<>> THEN ""
                             ELSE Or(Get(FirstAttrs(f), "CODE", Null),
                                     Get(FirstAttrs(f), "DESC", ""))
                 flu_desc == IF f.payload = <<>> THEN ""
                             ELSE Lookup(flu_lookup, flu_code, "")
             IN  IF RaisesSession(z) THEN Out(Failure(ExcText), mgz)
                 ELSE IF RaisesSession(f) THEN Out(Failure(ExcText), mgzf)
                 ELSE Out(Zoning(zoning_code, zoning_desc, flu_code, flu_desc), mgzf)

\* City names holding 'St. Petersburg' or 'St Petersburg', 'Clearwater', 'Largo',
\* among the names the model's lookups can store in api_city.
StPeteNames == {"St. Petersburg"}
ClearwaterNames == {"Clearwater"}
LargoNames == {"Largo"}

\* City names whose upper case holds one of the unincorporated indicators.
UnincorporatedNames == {"Unincorporated Pinellas", "Unincorporated Pinellas (Lealman)"}

is_unincorporated(city_name) ==
    \/ ~Truthy(city_name)
    \/ city_name \in UnincorporatedNames

\* The branch lookup_pinellas_zoning takes for a city name.
PinellasBranch(city_name) ==
    IF city_name \in StPeteNames THEN "stpete"
    ELSE IF city_name \in ClearwaterNames THEN "clearwater"
    ELSE IF city_name \in LargoNames THEN "largo"
    ELSE IF is_unincorporated(city_name) THEN "unincorporated"
    ELSE "other"

lookup_pinellas_zoning(city_name, address, geo, z, f, zoningCall, fluCall) ==
    IF ~Truthy(address) THEN Via("none", Out(Failure(ErrAddressRequired), <<>>))
    ELSE IF PinellasBranch(city_name) = "stpete"
    THEN Via("stpete", lookup_stpete_zoning(address, geo, z, f))
    ELSE IF PinellasBranch(city_name) = "clearwater"
    THEN Via("clearwater", lookup_clearwater_zoning(address, geo, z, f, fluCall))
    ELSE IF PinellasBranch(city_name) = "largo"
    THEN Via("largo", lookup_largo_zoning(address, geo, f))
    ELSE IF PinellasBranch(city_name) = "unincorporated"
    THEN Via("unincorporated",
             lookup_unincorporated_zoning(address, geo, z, f, zoningCall, fluCall))
    ELSE Via("other", Out(Zoning(ContactCity, Null, Null, Null), <<>>))

\* get_hillsborough_flu_description
get_hillsborough_flu_description(code) ==
    IF ~Truthy(code) THEN "" ELSE Lookup(HILLSBOROUGH_FLU_CODES, code, code)

\* geometry and geometry.get('rings')
HasRings(geometry) == geometry = "rings1"

\* result = {'success': True}, then the keys each answer with features adds.
HillsResult(z, f) ==
    [success |-> TRUE,
     zoning_code |-> IF z.payload = <<>> THEN <<Missing>>
                     ELSE T(Get(FirstAttrs(z), "CODE", "")),
     zoning_description |-> IF z.payload = <<>> THEN <<Missing>>
                            ELSE T(Get(FirstAttrs(z), "DESC", "")),
     future_land_use |->
         IF f.payload = <<>> THEN <<Missing>>
         ELSE T(get_hillsborough_flu_description(Get(FirstAttrs(f), "CODE", ""))),
     future_land_use_description |-> <<Missing>>]

\* A slip in the geometry test: the address is geocoded whether or not the
\* parcel's rings were handed in.
lookup_hillsborough_zoning_flu_geocoding(address, geometry, geo, z, f) ==
    LET g == <<GeocodeReq(address)>>
        point == IF geo.payload = <<>> THEN Null ELSE geo.payload[1]
        gz == Append(g, LayerReq("hillsborough_zoning", point))
        gzf == Append(gz, LayerReq("hillsborough_flu", point))
    IN  IF RaisesUnchecked(geo) THEN Out(Failure(ExcText), g)
        ELSE IF geo.payload = <<>> THEN Out(Failure(ErrGeocode), g)
        ELSE IF RaisesUnchecked(z) THEN Out(Failure(ExcText), gz)
        ELSE IF RaisesUnchecked(f) THEN Out(Failure(ExcText), gzf)
        ELSE Out(HillsResult(z, f), gzf)

lookup_hillsborough_zoning_flu(address, geometry, geo, z, f) ==
    LET g == IF HasRings(geometry) THEN <<>> ELSE <<GeocodeReq(address)>>
        point == IF HasRings(geometry) THEN "centroid"
                 ELSE IF geo.payload = <<>> THEN Null ELSE geo.payload[1]
        gz == Append(g, LayerReq("hillsborough_zoning", point))
        gzf == Append(gz, LayerReq("hillsborough_flu", point))
    IN  IF ~HasRings(geometry) /\ RaisesUnchecked(geo) THEN Out(Failure(ExcText), g)
        ELSE IF ~HasRings(geometry) /\ geo.payload = <<>> THEN Out(Failure(ErrGeocode), g)
        ELSE IF RaisesUnchecked(z) THEN Out(Failure(ExcText), gz)
        ELSE IF RaisesUnchecked(f) THEN Out(Failure(ExcText), gzf)
        ELSE Out(HillsResult(z, f), gzf)

PascoResult(z, f) ==
    LET flu_code == IF f.payload = <<>> THEN "" ELSE Get(FirstAttrs(f), "CODE", "")
        flu_desc == IF f.payload = <<>> THEN "" ELSE Get(FirstAttrs(f), "DESC", "")
    IN  [success |-> TRUE,
         zoning_code |-> IF z.payload = <<>> THEN <<Missing>>
                         ELSE T(Get(FirstAttrs(z), "CODE", "")),
         zoning_description |->
             IF z.payload = <<>> THEN <<Missing>>
             ELSE T(Lookup(PASCO_ZONING_DESCRIPTIONS, Get(FirstAttrs(z), "CODE", ""), "")),
         future_land_use |->
             IF Truthy(flu_code) /\ Truthy(flu_desc) THEN <<flu_code, " - ", flu_desc>>
             ELSE IF Truthy(flu_desc) THEN <<flu_desc>>
             ELSE IF Truthy(flu_code) THEN <<flu_code>>
             ELSE <<Missing>>,
         future_land_use_description |-> <<Missing>>]

lookup_pasco_zoning_flu(address, geometry, geo, z, f) ==
    LET g == IF HasRings(geometry) THEN <<>> ELSE <<GeocodeReq(address)>>
        point == IF HasRings(geometry) THEN "centroid"
                 ELSE IF geo.payload = <<>> THEN Null ELSE geo.payload[1]
        gz == Append(g, LayerReq("pasco_zoning", point))
        gzf == Append(gz, LayerReq("pasco_flu", point))
    IN  IF ~HasRings(geometry) /\ RaisesUnchecked(geo) THEN Out(Failure(ExcText), g)
        ELSE IF ~HasRings(geometry) /\ geo.payload = <<>> THEN Out(Failure(ErrGeocode), g)
        ELSE IF RaisesUnchecked(z) THEN Out(Failure(ExcText), gz)
        ELSE IF RaisesUnchecked(f) THEN Out(Failure(ExcText), gzf)
        ELSE Out(PascoResult(z, f), gzf)

-----------------------------------------------------------------------------
(* arcgis_utils.py: feature sets                                           *)

\* A text that may be null: `value or ""`.
TextOr(t) == IF TruthyText(t) THEN t ELSE <<>>

\* An ArcGIS feature.  A feature whose attributes are null or absent is a
\* record without the attributes field; a null geometry is Null.
Feature(attributes, geometry) == [attributes |-> attributes, geometry |-> geometry]
Bare(geometry) == [geometry |-> geometry]

\* What get_json hands back for an answer that does not raise: the features.
Features(answer) == answer.payload

extract_first_geometry(features) ==
    IF features = <<>> THEN Null ELSE features[1].geometry

\* The empty attribute object {}.
NoAttributes == [k \in {} |-> <<>>]

\* None without features, else feats[0].get("attributes") or {}.  None is
\* written as {}: both are falsy and the callers test nothing else.
extract_first_attributes(features) ==
    IF features = <<>> THEN NoAttributes
    ELSE IF "attributes" \notin DOMAIN features[1] THEN NoAttributes
    ELSE features[1].attributes

-----------------------------------------------------------------------------
(* streamlit_app.py: configuration read from data/*.json                   *)

\* cfg["pinellas"] of core_services.json: the layers and fields it names.
ParcelsLayer == "parcels_layer"
ParcelIdField == "parcel_id_field"
MunicipalBoundaryLayer == "municipal_boundary_layer"
MunicipalNameField == "NAME"

\* cfg["known_city_overrides"]: the jurisdictions with a static layer pair.
KnownCityOverrides ==
    [j \in {<<"St. Petersburg">>} |->
        [zoning_layer |-> "stpete_zoning_layer", flu_layer |-> "stpete_flu_layer"]]

\* cfg["unincorporated"]
UnincorporatedLayers ==
    [zoning_layer |-> "county_zoning_layer", flu_layer |-> "county_flu_layer"]

\* Viewer URLs: with an id and a host, without an id, without a scheme.
UrlGood == "https://gis.example/apps/webappviewer/index.html?id=0123456789abcdef0123456789abcdef"
UrlNoId == "https://gis.example/apps/zoning/index.html"
UrlNoHost == "gis.example/apps/webappviewer/index.html?id=0123456789abcdef0123456789abcdef"

\* pinellas_city_apps.json: the viewer applications of the municipalities.
CityApps ==
    [j \in {<<"St. Petersburg">>, <<"Dunedin">>, <<"Gulfport">>, <<"Seminole">>, <<"Belleair">>} |->
        CASE j \in {<<"St. Petersburg">>, <<"Dunedin">>} -> [zoning_flu_app |-> UrlGood]
          [] j = <<"Gulfport">> -> [gis_viewer_app |-> UrlNoId, zoning_app |-> UrlGood]
          [] j = <<"Seminole">> -> [zoning_app |-> UrlNoHost]
          [] j = <<"Belleair">> -> [website |-> "https://belleair.example"]]

-----------------------------------------------------------------------------
(* streamlit_app.py: parcel location and jurisdiction                      *)

ErrNoGeometry == "Parcel geometry not found in county parcel layer."
Sentinel == <<"Unincorporated Pinellas County">>

\* The parcel query of pinellas_get_parcel_geometry.
ParcelQuery(parcel_id) ==
    LET safe_pid == Replace(parcel_id, Quote, <<Quote, Quote>>)
    IN  Req(ParcelsLayer, parcel_id, ParcelIdField, <<Quote>> \o safe_pid \o <<Quote>>)

\* pinellas_get_parcel_geometry, given the features of an answer that did
\* not raise: (geom, attrs, err).
pinellas_get_parcel_geometry(features) ==
    LET g == extract_first_geometry(features)
    IN  IF g = Null THEN [geom |-> Null, err |-> ErrNoGeometry]
        ELSE [geom |-> g, err |-> ""]

\* A slip in the blank test: the name is returned as the layer holds it.
pinellas_get_jurisdiction_unstripped(features) ==
    LET attrs == extract_first_attributes(features)
        name == TextOr(Get(attrs, MunicipalNameField, <<Null>>))
    IN  IF name # <<>> THEN name ELSE Sentinel

\* pinellas_get_jurisdiction, given the features of an answer that did not
\* raise: the name it returns.
pinellas_get_jurisdiction(features) ==
    LET attrs == extract_first_attributes(features)
        name == Strip(TextOr(Get(attrs, MunicipalNameField, <<Null>>)))
    IN  IF name # <<>> THEN name ELSE Sentinel

\* jurisdiction.lower().startswith("unincorporated")
StartsWithUnincorporated(name) ==
    /\ name # <<>>
    /\ name[1] \in {"Unincorporated Pinellas County", "UNINCORPORATED", "Unincorporated"}

-----------------------------------------------------------------------------
(* arcgis_utils.py: layer discovery                                        *)

\* re.search(r"[?&]id=([0-9a-f]{32})", app_url) on the sampled URLs.
parse_webappviewer_id(app_url) ==
    IF app_url \in {UrlGood, UrlNoHost} THEN "0123456789abcdef0123456789abcdef" ELSE Null

\* re.match(r"https?://([^/]+)/", app_url) on the sampled URLs: Null stands
\* for the ValueError raised when there is no match.
arcgis_host_from_url(app_url) ==
    IF app_url \in {UrlGood, UrlNoId} THEN "gis.example" ELSE Null

\* Identifiers an item document may hold where a web-map id is looked for:
\* a 32-character string and a string of another length.
WebmapId == "fedcba9876543210fedcba9876543210"
OtherWebmapId == "00112233445566778899aabbccddeeff"
ShortId == "fedcba98"

\* isinstance(wm, str) and len(wm) == 32
IsWebmapId(wm) == wm \in {WebmapId, OtherWebmapId}

\* An item document: what it holds at webmap, values.webmap and
\* values.config.webmap (Missing: nothing there).
ItemDoc(webmap, values_webmap, config_webmap) ==
    [webmap |-> webmap, values_webmap |-> values_webmap, config_webmap |-> config_webmap]

\* The empty document {}, which also stands for a document that is None.
EmptyDoc == ItemDoc(Missing, Missing, Missing)

\* The web-map id found in one document, Null when it holds none.
WebmapIdIn(src) ==
    IF IsWebmapId(src.webmap) THEN src.webmap
    ELSE IF IsWebmapId(src.values_webmap) THEN src.values_webmap
    ELSE IF IsWebmapId(src.config_webmap) THEN src.config_webmap
    ELSE Null

\* A slip in the order of the loop: the metadata document before the data.
extract_webmap_id_metafirst(item_meta, item_data) ==
    IF WebmapIdIn(item_meta) # Null THEN WebmapIdIn(item_meta)
    ELSE WebmapIdIn(item_data)

extract_webmap_id(item_meta, item_data) ==
    IF WebmapIdIn(item_data) # Null THEN WebmapIdIn(item_data)
    ELSE WebmapIdIn(item_meta)

\* try_item_json: each document is fetched in its own try; a failed fetch
\* leaves None.
try_item_json(metaAnswer, dataAnswer) ==
    [meta |-> IF RaisesChecked(metaAnswer) THEN EmptyDoc ELSE metaAnswer.payload,
     data |-> IF RaisesChecked(dataAnswer) THEN EmptyDoc ELSE dataAnswer.payload]

\* Operational layers of a web map: title, layerType and url as the document
\* holds them (Null: absent).
Layer(title, layerType, url) == [title |-> title, layerType |-> layerType, url |-> url]

DiscoveredLayer(title, url) == [title |-> title, url |-> url]

\* The loop of extract_operational_layers_from_webmap over operationalLayers.
RECURSIVE OperationalLayers(_)
OperationalLayers(lyrs) ==
    IF lyrs = <<>> THEN <<>>
    ELSE LET lyr == Head(lyrs)
             title == Or(lyr.title, Or(lyr.layerType, "Layer"))
         IN  (IF Truthy(lyr.url) THEN <<DiscoveredLayer(title, lyr.url)>> ELSE <<>>)
             \o OperationalLayers(Tail(lyrs))

\* Titles matched by _ZONE_NAME_RE and by _FLU_NAME_RE, among the sampled ones.
ZoneTitles == {"Zoning", "Zoning Overlay", "Zoning and Land Use"}
FluTitles == {"Future Land Use", "Zoning and Land Use"}

\* SelectSeq with the order kept.
RECURSIVE Filter(_, _)
Filter(ls, titles) ==
    IF ls = <<>> THEN <<>>
    ELSE (IF Head(ls).title \in titles THEN <<Head(ls)>> ELSE <<>>)
         \o Filter(Tail(ls), titles)

\* A slip in the second test: `elif`, so that a zoning layer is never an FLU one.
pick_candidate_layers_elif(ls) ==
    [zoning |-> Filter(ls, ZoneTitles), flu |-> Filter(ls, FluTitles \ ZoneTitles)]

pick_candidate_layers(ls) ==
    [zoning |-> Filter(ls, ZoneTitles), flu |-> Filter(ls, FluTitles)]

ErrNoAppId == "Could not parse ?id=... from app URL"
ErrNoWebmapId == "Could not locate a webmap id in app item JSON"
NoCandidates == [zoning |-> <<>>, flu |-> <<>>]

\* A discovery result; raised tells that an exception left discover_city_layers
\* instead of a result.
Discovery(ok, error, candidates, count) ==
    [raised |-> FALSE, ok |-> ok, error |-> error, candidates |-> candidates,
     operational_layers_count |-> count]
DiscoveryRaised ==
    [raised |-> TRUE, ok |-> FALSE, error |-> ExcText, candidates |-> NoCandidates,
     operational_layers_count |-> 0]

ItemReq(item_id, doc) == Req("portal_item", item_id, doc, <<>>)

\* discover_city_layers: the requests it issues and what it returns, given the
\* answers to the item, item-data and web-map-data requests.
discover_city_layers(app_url, metaAnswer, dataAnswer, webmapAnswer) ==
    LET item_id == parse_webappviewer_id(app_url)
        host == arcgis_host_from_url(app_url)
        docs == try_item_json(metaAnswer, dataAnswer)
        webmap_id == extract_webmap_id(docs.meta, docs.data)
        items == <<ItemReq(item_id, "item"), ItemReq(item_id, "data")>>
        all == Append(items, ItemReq(webmap_id, "data"))
        found == OperationalLayers(webmapAnswer.payload)
    IN  IF item_id = Null
        THEN [result |-> Discovery(FALSE, ErrNoAppId, NoCandidates, 0), sent |-> <<>>]
        ELSE IF host = Null THEN [result |-> DiscoveryRaised, sent |-> <<>>]
        ELSE IF webmap_id = Null
        THEN [result |-> Discovery(FALSE, ErrNoWebmapId, NoCandidates, 0), sent |-> items]
        ELSE IF RaisesChecked(webmapAnswer) THEN [result |-> DiscoveryRaised, sent |-> all]
        ELSE [result |-> Discovery(TRUE, "", pick_candidate_layers(found), Len(found)),
              sent |-> all]

\* score() of pick_best_layer_from_candidates on the sampled titles.
TitleScore(title) ==
    CASE title = "Zoning" -> 50
      [] title = "Zoning Overlay" -> 40
      [] title = "Zoning and Land Use" -> 75
      [] title = "Future Land Use" -> 50
      [] OTHER -> 0

\* A slip in the choice: min(candidates, key=score).
pick_best_layer_from_candidates_min(candidates) ==
    IF candidates = <<>> THEN Null
    ELSE LET best == CHOOSE i \in 1..Len(candidates) :
                         /\ \A j \in 1..Len(candidates) :
                                TitleScore(candidates[j].title) >= TitleScore(candidates[i].title)
                         /\ \A j \in 1..(i - 1) :
                                TitleScore(candidates[j].title) > TitleScore(candidates[i].title)
         IN  candidates[best].url

\* max(candidates, key=score): the first candidate of the highest score.
pick_best_layer_from_candidates(candidates) ==
    IF candidates = <<>> THEN Null
    ELSE LET best == CHOOSE i \in 1..Len(candidates) :
                         /\ \A j \in 1..Len(candidates) :
                                TitleScore(candidates[j].title) <= TitleScore(candidates[i].title)
                         /\ \A j \in 1..(i - 1) :
                                TitleScore(candidates[j].title) < TitleScore(candidates[i].title)
         IN  candidates[best].url

-----------------------------------------------------------------------------
(* arcgis_utils.py and streamlit_app.py: reading a code off a layer        *)

\* A field of a layer's schema.  domain.type is "none" for a field without a
\* domain; codedValues maps the codes of a coded-value domain to their names.
NoCodes == [c \in {} |-> ""]
Field(name, alias, type, codedValues) ==
    [name |-> name, alias |-> alias, domain |-> [type |-> type, codedValues |-> codedValues]]

F_OBJECTID == Field("OBJECTID", "OBJECTID", "none", NoCodes)
F_ZONECLASS == Field("ZONECLASS", "Zoning", "codedValue", [c \in {"RM"} |-> "Residential Medium"])
F_ZONEDESC == Field("ZONEDESC", "Zone Description", "none", NoCodes)
F_FLU == Field("FLU", "Future Land Use", "none", NoCodes)
F_STATUS == Field("STATUS", "Status", "codedValue", [c \in {"A"} |-> "Active"])

\* The words of the sampled names and aliases that hold each substring
\* _score_field looks for in the lower-cased "name alias".
WithZoneclassOrZoning == {"ZONECLASS", "Zoning"}
WithZone == {"ZONECLASS", "ZONEDESC", "Zone Description"}
WithFuture == {"Future Land Use"}
WithUse == {"Future Land Use"}
WithLandUseOrFlu == {"FLU", "Future Land Use"}

Holds(f, words) == f.name \in words \/ f.alias \in words

_score_field(f, kind) ==
    IF kind = "zoning"
    THEN IF Holds(f, WithZoneclassOrZoning) THEN 100
         ELSE IF Holds(f, WithZone) THEN 80
         ELSE 0
    ELSE IF kind = "flu"
    THEN IF Holds(f, WithFuture) /\ Holds(f, WithUse) THEN 100
         ELSE IF Holds(f, WithLandUseOrFlu) THEN 80
         ELSE 0
    ELSE 0

\* The score of one field in pick_best_code_field.
FieldScore(f, kind) ==
    _score_field(f, kind) + (IF f.domain.type = "codedValue" THEN 50 ELSE 0)

\* A slip in the comparison of the loop: `>=` keeps the last field of the
\* highest score.
pick_best_code_field_lasttie(fields, kind) ==
    IF fields = <<>> THEN 0
    ELSE LET best == CHOOSE i \in 1..Len(fields) :
                         /\ \A j \in 1..Len(fields) :
                                FieldScore(fields[j], kind) <= FieldScore(fields[i], kind)
                         /\ \A j \in (i + 1)..Len(fields) :
                                FieldScore(fields[j], kind) < FieldScore(fields[i], kind)
         IN  IF FieldScore(fields[best], kind) <= 0 THEN 0 ELSE best

\* pick_best_code_field: the index of the field it returns, 0 for None.  The
\* loop keeps the first field of the highest score; best_score starts at -1.
pick_best_code_field(fields, kind) ==
    IF fields = <<>> THEN 0
    ELSE LET best == CHOOSE i \in 1..Len(fields) :
                         /\ \A j \in 1..Len(fields) :
                                FieldScore(fields[j], kind) <= FieldScore(fields[i], kind)
                         /\ \A j \in 1..(i - 1) :
                                FieldScore(fields[j], kind) < FieldScore(fields[i], kind)
         IN  IF FieldScore(fields[best], kind) <= 0 THEN 0 ELSE best

coded_value_map(field_def) ==
    IF field_def.domain.type # "codedValue" THEN NoCodes ELSE field_def.domain.codedValues

\* The alternate description fields, in the order they are tried.
DescriptionFields ==
    <<"ZONEDESC", "ZONE_DESC", "DESCRIPTION", "DESC", "LANDUSE_DESC", "FLU_DESC",
      "FUTURE_LAND_USE_DESC">>

\* The first alternate description field the attributes hold a value for.
RECURSIVE FirstDescription(_, _)
FirstDescription(attrs, i) ==
    IF i > Len(DescriptionFields) THEN ""
    ELSE IF DescriptionFields[i] \in DOMAIN attrs /\ Truthy(attrs[DescriptionFields[i]])
    THEN attrs[DescriptionFields[i]]
    ELSE FirstDescription(attrs, i + 1)

ErrMissingLayer == "Missing layer URL."
ErrMetadata == "Layer metadata fetch failed: exception"
ErrNoCodeField == "Could not identify a likely code field from layer metadata."
ErrLayerQuery == "Layer query failed: exception"
ErrNoFeature == "No intersecting feature returned."
ErrNoZoningCandidates == "No zoning candidate layers found."
ErrNoFluCandidates == "No FLU candidate layers found."

\* The result of reading one kind of code.
Reading(ok, code, description, layer_url, kind, raw, error, code_field) ==
    [ok |-> ok, code |-> code, description |-> description, layer_url |-> layer_url,
     kind |-> kind, raw |-> raw, error |-> error, code_field |-> code_field]

Unread(layer_url, kind, error) ==
    Reading(FALSE, "", "", layer_url, kind, NoAttributes, error, Missing)

\* An attribute value that is a JSON number, and the text str() makes of it;
\* str() of a text is the text.
Number7 == "#7"
JsonNumbers == {Number7}
str(v) == IF v = Number7 THEN "7" ELSE v

\* A slip in the last update: the code attribute is stored as the feature
\* holds it, None and numbers included.
query_zoning_or_flu_raw(layer_url, parcel_geom, kind, metaAnswer, queryAnswer) ==
    LET m == <<MetaReq(layer_url, kind)>>
        mq == Append(m, LayerReq(layer_url, parcel_geom))
        best == pick_best_code_field(metaAnswer.payload, kind)
        field_def == metaAnswer.payload[best]
        domain_map == coded_value_map(field_def)
        attrs == extract_first_attributes(Features(queryAnswer))
        code == Get(attrs, field_def.name, Null)
        desc == IF code \in DOMAIN domain_map THEN domain_map[code]
                ELSE FirstDescription(attrs, 1)
    IN  IF ~Truthy(layer_url)
        THEN [result |-> Unread(layer_url, kind, ErrMissingLayer), sent |-> <<>>]
        ELSE IF RaisesChecked(metaAnswer)
        THEN [result |-> Unread(layer_url, kind, ErrMetadata), sent |-> m]
        ELSE IF best = 0
        THEN [result |-> Unread(layer_url, kind, ErrNoCodeField), sent |-> m]
        ELSE IF RaisesChecked(queryAnswer)
        THEN [result |-> Unread(layer_url, kind, ErrLayerQuery), sent |-> mq]
        ELSE IF DOMAIN attrs = {}
        THEN [result |-> Unread(layer_url, kind, ErrNoFeature), sent |-> mq]
        ELSE [result |-> Reading(TRUE, code, desc, layer_url,
                                 kind, attrs, "", field_def.name),
              sent |-> mq]

\* query_zoning_or_flu: the requests it issues and what it returns, given the
\* answers to the metadata request and to the spatial query.
query_zoning_or_flu(layer_url, parcel_geom, kind, metaAnswer, queryAnswer) ==
    LET m == <<MetaReq(layer_url, kind)>>
        mq == Append(m, LayerReq(layer_url, parcel_geom))
        best == pick_best_code_field(metaAnswer.payload, kind)
        field_def == metaAnswer.payload[best]
        domain_map == coded_value_map(field_def)
        attrs == extract_first_attributes(Features(queryAnswer))
        code == Get(attrs, field_def.name, Null)
        desc == IF code \in DOMAIN domain_map THEN domain_map[code]
                ELSE FirstDescription(attrs, 1)
    IN  IF ~Truthy(layer_url)
        THEN [result |-> Unread(layer_url, kind, ErrMissingLayer), sent |-> <<>>]
        ELSE IF RaisesChecked(metaAnswer)
        THEN [result |-> Unread(layer_url, kind, ErrMetadata), sent |-> m]
        ELSE IF best = 0
        THEN [result |-> Unread(layer_url, kind, ErrNoCodeField), sent |-> m]
        ELSE IF RaisesChecked(queryAnswer)
        THEN [result |-> Unread(layer_url, kind, ErrLayerQuery), sent |-> mq]
        ELSE IF DOMAIN attrs = {}
        THEN [result |-> Unread(layer_url, kind, ErrNoFeature), sent |-> mq]
        ELSE [result |-> Reading(TRUE, IF code = Null THEN "" ELSE str(code), desc, layer_url,
                                 kind, attrs, "", field_def.name),
              sent |-> mq]

\* The reading that stands for a kind without candidate layers.
NoCandidateReading(kind) ==
    Unread(Null, kind, IF kind = "zoning" THEN ErrNoZoningCandidates ELSE ErrNoFluCandidates)

\* app_info.get(...) or ... over the six application keys, in order.
AppUrl(app_info) ==
    Or(Get(app_info, "zoning_flu_app", Null),
       Or(Get(app_info, "gis_viewer_app", Null),
          Or(Get(app_info, "zoning_flu_lookup_app", Null),
             Or(Get(app_info, "zoning_lookup_app", Null),
                Or(Get(app_info, "future_land_use_2045_app", Null),
                   Get(app_info, "zoning_app", Null))))))

ErrNoAppUrl == "No app URL configured for this jurisdiction."

-----------------------------------------------------------------------------
(* The parts of the program at rest                                        *)

NoResult == [ok |-> FALSE, msg |-> "", text |-> <<>>]

\* No text helper is being exercised.
TextIdle ==
    /\ input = <<>>
    /\ fn = "none"
    /\ result = NoResult

\* st.session_state of a new session: the text fields read back as '' and the
\* stored geometries as None.
EmptySession ==
    [api_address |-> "", api_city |-> "", api_zip |-> "", api_owner |-> "",
     api_land_use |-> <<>>, api_zoning |-> <<>>, land_area_sqft |-> "",
     land_area_acres |-> "", api_flu |-> <<>>,
     hillsborough_geometry |-> Null, pasco_geometry |-> Null]

NothingShown == [level |-> "none", text |-> ""]
\* No Pinellas zoning lookup has been routed yet.
NoRoute ==
    [location |-> "", tax_district |-> "", city |-> "", branch |-> "none",
     result |-> [success |-> FALSE, error |-> ""]]

\* app.py as a new session shows it, before any button is pressed.
AppIdle ==
    /\ county = "Pinellas"
    /\ parcel_id_input = <<>>
    /\ session = EmptySession
    /\ sent = <<>>
    /\ answered = <<>>
    /\ shown = NothingShown
    /\ routed = NoRoute
    /\ prevRouted = NoRoute

NoLayers == [zoning_layer |-> Null, flu_layer |-> Null]
NoDiscovery == Discovery(FALSE, "", NoCandidates, 0)
NoReading == Unread(Null, "", "")
NothingOut == [shown |-> "none", status |-> "", error |-> ""]

\* streamlit_app.py before the Lookup button is pressed; nothing is cached.
LookupIdle ==
    /\ stage = "idle"
    /\ pid = <<>>
    /\ geom = Null
    /\ jurisdiction = <<>>
    /\ branch = "none"
    /\ layers = NoLayers
    /\ discovery = NoDiscovery
    /\ zoning = NoReading
    /\ flu = NoReading
    /\ outcome = NothingOut
    /\ cache = {}


\* No external call is under way.
NetIdle ==
    /\ calling = "none"
    /\ tries = <<>>
    /\ callDone = FALSE

Sessions == {"s1", "s2"}

Resting == [pc |-> "rest"]

\* Nothing is cached and no session is resolving anything.
CacheIdle ==
    /\ clock = 0
    /\ store = {}
    /\ work = [s \in Sessions |-> Resting]
    /\ log = <<>>

\* No function has been applied on its own.
PureIdle ==
    /\ applied = "none"
    /\ args = <<>>
    /\ returned = <<>>
-----------------------------------------------------------------------------
(* app.py: the Parcel Lookup tab                                           *)

Counties == {"Pinellas", "Hillsborough", "Pasco"}

\* Identifiers typed into the input: none, an undashed Pinellas identifier, and
\* one with a dash, a period and a quote.
AppInputs == {<<>>, BaseId, <<"1", "-", ".", "'">>}

\* The answers to the queries of one parcel lookup that tries up to n formats:
\* queries before the k-th find no feature, and the k-th gets any answer.
ParcelScripts(n) ==
    {[i \in 1..n |-> IF i < k THEN none ELSE a] :
        k \in 1..n, none \in {Http("ok", TRUE, <<>>), ServerErrorJson}, a \in ParcelAnswers}

\* A fetch_coded_values call that is not made.
Uncalled == [fetched |-> FALSE, map |-> NoDomain]

\* The fetch_coded_values calls a Pinellas branch makes for zoning and for FLU.
ZoningCalls(taken) == IF taken = "unincorporated" THEN CodedValueCalls ELSE {Uncalled}
FluCalls(taken) ==
    IF taken \in {"unincorporated", "clearwater"} THEN CodedValueCalls ELSE {Uncalled}

\* A request that is not made has no answer; it is written as an empty one.
Unasked == Http("ok", TRUE, <<>>)

\* The answers <<zoning layer, FLU layer>> of one zoning lookup: the FLU layer
\* is not asked once the zoning layer cannot be reached.
LayerScripts ==
    {<<z, f>> : z \in LayerAnswers \ {Unreachable}, f \in LayerAnswers}
    \cup {<<Unreachable, Unasked>>}

\* The answers <<geocoder, zoning layer, FLU layer>> of a zoning lookup that
\* geocodes the address: no layer is asked without a geocoded point.
GeocodedScripts ==
    {<<geo, Unasked, Unasked>> : geo \in {g \in GeocodeAnswers : g.payload = <<>>}}
    \cup {<<geo, l[1], l[2]>> :
            geo \in {g \in GeocodeAnswers : g.payload # <<>>}, l \in LayerScripts}

\* The same for a lookup that has the parcel's rings and asks no geocoder.
RingScripts == {<<Unasked, l[1], l[2]>> : l \in LayerScripts}

ZoningScripts(geocoded) == IF geocoded THEN GeocodedScripts ELSE RingScripts

HillsboroughScripts == ParcelScripts(3)
PascoScripts == ParcelScripts(2)

Error(text) == [level |-> "error", text |-> text]
Success(text) == [level |-> "success", text |-> text]

MsgEnterParcel == "Please enter a parcel ID"
MsgEnterFolio == "Please enter a folio number"
MsgRetrieved == "Property data retrieved successfully!"
MsgRunPropertyFirst == "Please run Property Lookup first to get the address"

AppInit ==
    /\ TextIdle
    /\ AppIdle
    /\ LookupIdle
    /\ NetIdle
    /\ CacheIdle
    /\ PureIdle

\* The county selectbox changes; the script reruns with no button pressed.
SelectCounty ==
    /\ \E c \in Counties \ {county} : county' = c
    /\ sent' = <<>>
    /\ answered' = <<>>
    /\ shown' = NothingShown
    /\ UNCHANGED <<textVars, sideVars, lookupVars, parcel_id_input, session, routed, prevRouted>>

\* The text input changes; the script reruns with no button pressed.
EnterParcel ==
    /\ \E p \in AppInputs \ {parcel_id_input} : parcel_id_input' = p
    /\ sent' = <<>>
    /\ answered' = <<>>
    /\ shown' = NothingShown
    /\ UNCHANGED <<textVars, sideVars, lookupVars, county, session, routed, prevRouted>>

\* The session after a successful property lookup in county c.
StoreParcel(r, c) ==
    [session EXCEPT
        !.api_address = r.address,
        !.api_city = r.city,
        !.api_zip = r.zip,
        !.api_owner = r.owner,
        !.api_land_use = r.land_use,
        !.api_zoning = T(r.zoning),
        !.land_area_sqft = r.site_area_sqft,
        !.land_area_acres = r.site_area_acres,
        !.api_flu = IF c = "Pasco" THEN T(r.flu) ELSE <<>>,
        !.hillsborough_geometry = IF c = "Hillsborough" THEN r.geometry ELSE @,
        !.pasco_geometry = IF c = "Pasco" THEN r.geometry ELSE @]

\* A slip in the failure branch: the fields of the last parcel are cleared.
PropertyDone_clearing(out) ==
    /\ sent' = out.sent
    /\ answered' = out.answered
    /\ IF out.result.success
       THEN /\ session' = StoreParcel(out.result, county)
            /\ shown' = Success(MsgRetrieved)
       ELSE /\ shown' = Error(out.result.error)
            /\ session' = [session EXCEPT !.api_address = "", !.api_city = ""]

\* The end of the property handler, given what the county's lookup did.
PropertyDone(out) ==
    /\ sent' = out.sent
    /\ answered' = out.answered
    /\ IF out.result.success
       THEN /\ session' = StoreParcel(out.result, county)
            /\ shown' = Success(MsgRetrieved)
       ELSE /\ shown' = Error(out.result.error)
            /\ UNCHANGED session

\* The "Lookup Property Info" button.
LookupPropertyInfo ==
    /\ \/ /\ parcel_id_input = <<>>
          /\ shown' = Error(IF county = "Pinellas" THEN MsgEnterParcel ELSE MsgEnterFolio)
          /\ sent' = <<>>
          /\ answered' = <<>>
          /\ UNCHANGED session
       \/ /\ parcel_id_input # <<>>
          /\ county = "Pinellas"
          /\ ~validate_parcel_id(parcel_id_input).ok
          /\ shown' = Error(validate_parcel_id(parcel_id_input).msg)
          /\ sent' = <<>>
          /\ answered' = <<>>
          /\ UNCHANGED session
       \/ /\ parcel_id_input # <<>>
          /\ county = "Pinellas"
          /\ validate_parcel_id(parcel_id_input).ok
          /\ \E search \in PcpaoAnswers, detail \in DetailAnswers :
                PropertyDone(scrape_pinellas_property(parcel_id_input, search, detail))
       \/ /\ parcel_id_input # <<>>
          /\ county = "Hillsborough"
          /\ \E answers \in HillsboroughScripts :
                PropertyDone(lookup_hillsborough_parcel(parcel_id_input, answers))
       \/ /\ parcel_id_input # <<>>
          /\ county = "Pasco"
          /\ \E answers \in PascoScripts :
                PropertyDone(lookup_pasco_parcel(parcel_id_input, answers))
    /\ UNCHANGED <<textVars, sideVars, lookupVars, county, parcel_id_input, routed, prevRouted>>

\* f"{code} - {description}" when both are there, the code alone otherwise.
WithDescription(code, description) ==
    IF TruthyText(description) THEN code \o <<" - ">> \o description ELSE code

\* The success message of the zoning handler.
ZoningMessage(c, city) ==
    IF c = "Pasco" THEN "Zoning and FLU data updated from Pasco County GIS!"
    ELSE IF c = "Hillsborough"
    THEN "Zoning and FLU data updated from Hillsborough County GIS!"
    ELSE IF city \in StPeteNames THEN "Zoning data updated from St. Petersburg GIS layers!"
    ELSE IF city \in ClearwaterNames THEN "Zoning data updated from Clearwater GIS layers!"
    ELSE IF city \in LargoNames
    THEN "Zoning/FLU data updated (Largo uses Future Land Use classification)!"
    ELSE IF city \in UnincorporatedNames
    THEN "Zoning data updated from Pinellas County (unincorporated) layers!"
    ELSE "Zoning data updated!"

\* The end of the zoning handler, given what the county's lookup did.
ZoningDone(out) ==
    /\ sent' = out.sent
    /\ answered' = <<>>
    /\ IF out.result.success
       THEN /\ session' =
                [session EXCEPT
                    !.api_zoning =
                        IF TruthyText(out.result.zoning_code)
                        THEN WithDescription(out.result.zoning_code,
                                             out.result.zoning_description)
                        ELSE @,
                    !.api_flu =
                        IF TruthyText(out.result.future_land_use)
                        THEN WithDescription(out.result.future_land_use,
                                             out.result.future_land_use_description)
                        ELSE @]
            /\ shown' = Success(ZoningMessage(county, session.api_city))
       ELSE /\ shown' = Error(out.result.error)
            /\ UNCHANGED session

\* The "Lookup Zoning & Future Land Use" button.
LookupZoning ==
    /\ \/ /\ ~Truthy(session.api_address)
          /\ shown' = Error(MsgRunPropertyFirst)
          /\ sent' = <<>>
          /\ answered' = <<>>
          /\ UNCHANGED session
       \/ /\ Truthy(session.api_address)
          /\ county = "Pinellas"
          /\ \E a \in ZoningScripts(TRUE),
                zoningCall \in ZoningCalls(PinellasBranch(session.api_city)),
                fluCall \in FluCalls(PinellasBranch(session.api_city)) :
                ZoningDone(lookup_pinellas_zoning(session.api_city, session.api_address,
                                                  a[1], a[2], a[3], zoningCall, fluCall))
       \/ /\ Truthy(session.api_address)
          /\ county = "Hillsborough"
          /\ \E a \in ZoningScripts(~HasRings(session.hillsborough_geometry)) :
                ZoningDone(lookup_hillsborough_zoning_flu(
                    session.api_address, session.hillsborough_geometry, a[1], a[2], a[3]))
       \/ /\ Truthy(session.api_address)
          /\ county = "Pasco"
          /\ \E a \in ZoningScripts(~HasRings(session.pasco_geometry)) :
                ZoningDone(lookup_pasco_zoning_flu(
                    session.api_address, session.pasco_geometry, a[1], a[2], a[3]))
    /\ UNCHANGED <<textVars, sideVars, lookupVars, county, parcel_id_input, routed, prevRouted>>

AppNext == SelectCounty \/ EnterParcel \/ LookupPropertyInfo \/ LookupZoning

SpecApp == AppInit /\ [][AppNext]_vars

-----------------------------------------------------------------------------
(* app.py: Pinellas lookups end to end, two in a row                       *)

RouteInit ==
    /\ TextIdle
    /\ AppIdle
    /\ LookupIdle
    /\ NetIdle
    /\ CacheIdle
    /\ PureIdle

\* One Pinellas lookup: the property lookup finds a row of the appraiser, the
\* handler stores its address and city, and the zoning handler hands both to
\* lookup_pinellas_zoning.  The decision takes the place of the one before.
\* Address and city come from the search row alone, so the detail page is
\* left unreachable.
RoutePinellas ==
    /\ \E row \in PcpaoRows, detail \in {Unreachable}, a \in ZoningScripts(TRUE) :
          LET search == Http("ok", TRUE, [recordsTotal |-> 1, data |-> <<row>>])
              parcel == scrape_pinellas_property(BaseId, search, detail).result
          IN  \E zoningCall \in ZoningCalls(PinellasBranch(parcel.city)),
                 fluCall \in FluCalls(PinellasBranch(parcel.city)) :
                 LET out == lookup_pinellas_zoning(parcel.city, parcel.address,
                                                   a[1], a[2], a[3], zoningCall, fluCall)
                 IN  routed' = [location |-> parcel.address,
                                tax_district |-> row.tax_district,
                                city |-> parcel.city,
                                branch |-> out.branch,
                                result |-> out.result]
    /\ prevRouted' = routed
    /\ UNCHANGED <<textVars, sideVars, lookupVars, county, parcel_id_input, session, sent, answered, shown>>

RouteNext == RoutePinellas

SpecRoute == RouteInit /\ [][RouteNext]_vars

-----------------------------------------------------------------------------
(* The helpers applied to one text                                         *)

TextInit ==
    /\ input \in Inputs
    /\ fn = "none"
    /\ result = NoResult
    /\ AppIdle
    /\ LookupIdle
    /\ NetIdle
    /\ CacheIdle
    /\ PureIdle

Validate ==
    /\ fn = "none"
    /\ fn' = "validate_parcel_id"
    /\ result' = validate_parcel_id(input)
    /\ UNCHANGED <<input, appVars, lookupVars, sideVars>>

Normalize ==
    /\ fn = "none"
    /\ fn' = "normalized_parcel"
    /\ result' = TextResult(normalized_parcel(input))
    /\ UNCHANGED <<input, appVars, lookupVars, sideVars>>

Sanitize ==
    /\ fn = "none"
    /\ fn' = "sanitize_for_sql"
    /\ result' = TextResult(sanitize_for_sql(input))
    /\ UNCHANGED <<input, appVars, lookupVars, sideVars>>

StripDor ==
    /\ fn = "none"
    /\ fn' = "strip_dor_code"
    /\ result' = TextResult(strip_dor_code(input))
    /\ UNCHANGED <<input, appVars, lookupVars, sideVars>>

TextNext == Validate \/ Normalize \/ Sanitize \/ StripDor

SpecText == TextInit /\ [][TextNext]_vars

-----------------------------------------------------------------------------
(* streamlit_app.py: the Lookup button and pinellas_lookup                 *)

\* Parcel ids typed into the input: none, blank, a plain one, and one with a
\* quote and surrounding blanks.
LookupInputs == {<<>>, <<" ">>, <<"1">>, <<" ", "1", "'", " ">>}

\* Answers of the parcel layer.
ParcelLayerAnswers ==
    {Unreachable, ServerErrorJson, Garbled, Http("ok", TRUE, <<>>),
     Http("ok", TRUE, <<Feature([PARCELID |-> "1"], "polygon1")>>),
     Http("ok", TRUE, <<Feature([PARCELID |-> "1"], Null)>>)}

\* A feature of the municipal boundary layer with a name.
Boundary(name) == Feature([NAME |-> name], Null)

\* Answers of the municipal boundary layer.
BoundaryAnswers ==
    {Unreachable, ServerErrorJson, Http("ok", TRUE, <<>>)}
    \cup {Http("ok", TRUE, <<Boundary(<<n>>)>>) :
            n \in {"St. Petersburg", "Dunedin", "Gulfport", "Seminole", "Belleair", "Largo",
                   "UNINCORPORATED", Null}}
    \cup {Http("ok", TRUE, <<Boundary(<<" ", "Dunedin", " ">>)>>),
          Http("ok", TRUE, <<Boundary(<<" ">>), Boundary(<<"Dunedin">>)>>),
          Http("ok", TRUE, <<Boundary(<<"Dunedin">>), Boundary(<<"St. Petersburg">>)>>),
          Http("ok", TRUE, <<Bare(Null), Boundary(<<"Dunedin">>)>>)}

\* Answers of the portal to an item or item-data request.
ItemAnswers ==
    {Http("unreachable", FALSE, EmptyDoc), Http("transient", TRUE, EmptyDoc),
     Http("ok", TRUE, EmptyDoc),
     Http("ok", TRUE, ItemDoc(WebmapId, Missing, Missing)),
     Http("ok", TRUE, ItemDoc(ShortId, Missing, WebmapId))}

\* Answers of the portal to the web-map data request: its operationalLayers.
WebmapAnswers ==
    {Unreachable, ServerErrorJson, Http("ok", TRUE, <<>>),
     Http("ok", TRUE, <<Layer("Zoning", Null, "url_zoning"),
                        Layer("Future Land Use", Null, "url_flu")>>),
     Http("ok", TRUE, <<Layer("Zoning Overlay", Null, "url_overlay"),
                        Layer("Zoning and Land Use", Null, "url_both"),
                        Layer(Null, "ArcGISFeatureLayer", "url_other"),
                        Layer("Zoning", Null, Null)>>)}

\* Answers of a layer's metadata request: its fields.
MetaAnswers ==
    {Unreachable,
     Http("ok", TRUE, <<F_OBJECTID, F_ZONEDESC, F_ZONECLASS>>),
     Http("ok", TRUE, <<F_OBJECTID, F_FLU>>),
     Http("ok", TRUE, <<F_OBJECTID>>),
     Http("ok", TRUE, <<F_STATUS, F_OBJECTID>>)}

\* Answers of a layer's spatial query.
QueryAnswers ==
    {Unreachable, Http("ok", TRUE, <<>>),
     Http("ok", TRUE, <<Feature([ZONECLASS |-> "RM", ZONEDESC |-> "layer text", FLU |-> "MU",
                                 STATUS |-> "A"], Null)>>),
     Http("ok", TRUE, <<Feature([ZONECLASS |-> "XX", FLU |-> Null], Null)>>),
     Http("ok", TRUE, <<Bare(Null)>>)}

\* What the handler shows: an error, a warning, the result as JSON, or the
\* trace of an exception that left pinellas_lookup.
Shown(kind, status, error) == [shown |-> kind, status |-> status, error |-> error]
Raised == Shown("exception", "", ExcText)

MsgEnterId == "Enter a parcel ID."
MsgOnlyPinellas == "Only Pinellas is wired in this test app."

LookupInit ==
    /\ TextIdle
    /\ AppIdle
    /\ LookupIdle
    /\ NetIdle
    /\ CacheIdle
    /\ PureIdle

appRest == <<county, parcel_id_input, session, shown, routed, prevRouted>>

\* The Lookup button, with the county and the parcel id the inputs hold.
ClickLookup ==
    /\ stage \in {"idle", "done", "raised"}
    /\ \E c \in Counties, p \in LookupInputs :
          IF Strip(p) = <<>>
          THEN /\ pid' = <<>>
               /\ stage' = "done"
               /\ outcome' = Shown("error", "", MsgEnterId)
          ELSE IF c # "Pinellas"
          THEN /\ pid' = <<>>
               /\ stage' = "done"
               /\ outcome' = Shown("warning", "", MsgOnlyPinellas)
          ELSE /\ pid' = Strip(p)
               /\ stage' = "locate"
               /\ outcome' = NothingOut
    /\ geom' = Null
    /\ jurisdiction' = <<>>
    /\ branch' = "none"
    /\ layers' = NoLayers
    /\ discovery' = NoDiscovery
    /\ zoning' = NoReading
    /\ flu' = NoReading
    /\ sent' = <<>>
    /\ answered' = <<>>
    /\ UNCHANGED <<textVars, sideVars, appRest, cache>>

\* A slip after the parcel query: `err` is not looked at, and the lookup goes on.
Locate_unchecked ==
    /\ stage = "locate"
    /\ \E a \in ParcelLayerAnswers :
          /\ sent' = Append(sent, ParcelQuery(pid))
          /\ answered' = Append(answered, a)
          /\ IF RaisesChecked(a)
             THEN /\ stage' = "raised"
                  /\ outcome' = Raised
                  /\ UNCHANGED geom
             ELSE LET r == pinellas_get_parcel_geometry(Features(a))
                  IN  IF r.err # ""
                      THEN /\ stage' = "resolve"
                           /\ geom' = r.geom
                           /\ UNCHANGED outcome
                      ELSE /\ stage' = "resolve"
                           /\ geom' = r.geom
                           /\ UNCHANGED outcome
    /\ UNCHANGED <<textVars, sideVars, appRest, pid, jurisdiction, branch, layers, discovery,
                   zoning, flu, cache>>

\* pinellas_get_parcel_geometry
Locate ==
    /\ stage = "locate"
    /\ \E a \in ParcelLayerAnswers :
          /\ sent' = Append(sent, ParcelQuery(pid))
          /\ answered' = Append(answered, a)
          /\ IF RaisesChecked(a)
             THEN /\ stage' = "raised"
                  /\ outcome' = Raised
                  /\ UNCHANGED geom
             ELSE LET r == pinellas_get_parcel_geometry(Features(a))
                  IN  IF r.err # ""
                      THEN /\ stage' = "done"
                           /\ outcome' = Shown("json", "not_found", r.err)
                           /\ UNCHANGED geom
                      ELSE /\ stage' = "resolve"
                           /\ geom' = r.geom
                           /\ UNCHANGED outcome
    /\ UNCHANGED <<textVars, sideVars, appRest, pid, jurisdiction, branch, layers, discovery,
                   zoning, flu, cache>>

\* pinellas_get_jurisdiction
Resolve ==
    /\ stage = "resolve"
    /\ \E a \in BoundaryAnswers :
          /\ sent' = Append(sent, LayerReq(MunicipalBoundaryLayer, geom))
          /\ answered' = Append(answered, a)
          /\ IF RaisesChecked(a)
             THEN /\ stage' = "raised"
                  /\ outcome' = Raised
                  /\ UNCHANGED jurisdiction
             ELSE /\ stage' = "route"
                  /\ jurisdiction' = pinellas_get_jurisdiction(Features(a))
                  /\ UNCHANGED outcome
    /\ UNCHANGED <<textVars, sideVars, appRest, pid, geom, branch, layers, discovery, zoning, flu,
                   cache>>

\* city_apps.get(jurisdiction) or {}
AppInfo(j) == IF j \in DOMAIN CityApps THEN CityApps[j] ELSE NoAttributes

\* A slip in the order of the router: a jurisdiction with a viewer application
\* goes to discovery before its static pair is looked at.
Route_appfirst ==
    /\ stage = "route"
    /\ IF Truthy(AppUrl(AppInfo(jurisdiction)))
       THEN /\ branch' = "discovery"
            /\ stage' = "discover"
            /\ UNCHANGED <<layers, outcome>>
       ELSE IF jurisdiction \in DOMAIN KnownCityOverrides
       THEN /\ branch' = "static"
            /\ layers' = KnownCityOverrides[jurisdiction]
            /\ stage' = "zoning"
            /\ UNCHANGED outcome
       ELSE IF StartsWithUnincorporated(jurisdiction)
       THEN /\ branch' = "unincorporated"
            /\ layers' = UnincorporatedLayers
            /\ stage' = "zoning"
            /\ UNCHANGED outcome
       ELSE /\ branch' = "discovery"
            /\ stage' = "done"
            /\ outcome' = Shown("json", "not_found", ErrNoAppUrl)
            /\ UNCHANGED layers
    /\ UNCHANGED <<textVars, sideVars, appRest, sent, answered, pid, geom, jurisdiction, discovery,
                   zoning, flu, cache>>

\* The router of pinellas_lookup: the static pair, the county pair, or discovery.
Route ==
    /\ stage = "route"
    /\ IF jurisdiction \in DOMAIN KnownCityOverrides
       THEN /\ branch' = "static"
            /\ layers' = KnownCityOverrides[jurisdiction]
            /\ stage' = "zoning"
            /\ UNCHANGED outcome
       ELSE IF StartsWithUnincorporated(jurisdiction)
       THEN /\ branch' = "unincorporated"
            /\ layers' = UnincorporatedLayers
            /\ stage' = "zoning"
            /\ UNCHANGED outcome
       ELSE IF ~Truthy(AppUrl(AppInfo(jurisdiction)))
       THEN /\ branch' = "discovery"
            /\ stage' = "done"
            /\ outcome' = Shown("json", "not_found", ErrNoAppUrl)
            /\ UNCHANGED layers
       ELSE /\ branch' = "discovery"
            /\ stage' = "discover"
            /\ UNCHANGED <<layers, outcome>>
    /\ UNCHANGED <<textVars, sideVars, appRest, sent, answered, pid, geom, jurisdiction, discovery,
                   zoning, flu, cache>>

\* What pinellas_lookup does with a discovery result.
Discovered(d) ==
    /\ discovery' = d
    /\ IF ~d.ok
       THEN /\ stage' = "done"
            /\ outcome' = Shown("json", "service_unavailable", d.error)
            /\ UNCHANGED layers
       ELSE /\ stage' = "zoning"
            /\ layers' = [zoning_layer |-> pick_best_layer_from_candidates(d.candidates.zoning),
                          flu_layer |-> pick_best_layer_from_candidates(d.candidates.flu)]
            /\ UNCHANGED outcome

\* cached_discover_city_layers: a result already held for the URL is returned
\* as it is; otherwise discover_city_layers runs and its result is kept.  An
\* exception leaves pinellas_lookup and nothing is kept.
Discover ==
    /\ stage = "discover"
    /\ LET app_url == AppUrl(AppInfo(jurisdiction))
       IN  \/ /\ \E e \in cache : e[1] = app_url /\ Discovered(e[2])
              /\ UNCHANGED <<sent, answered, cache>>
           \/ /\ \A e \in cache : e[1] # app_url
              /\ \E m \in ItemAnswers, d \in ItemAnswers, w \in WebmapAnswers :
                    LET out == discover_city_layers(app_url, m, d, w)
                    IN  /\ sent' = sent \o out.sent
                        /\ answered' = answered \o SubSeq(<<m, d, w>>, 1, Len(out.sent))
                        /\ IF out.result.raised
                           THEN /\ stage' = "raised"
                                /\ outcome' = Raised
                                /\ UNCHANGED <<discovery, layers, cache>>
                           ELSE /\ cache' = cache \cup {<<app_url, out.result>>}
                                /\ Discovered(out.result)
    /\ UNCHANGED <<textVars, sideVars, appRest, pid, geom, jurisdiction, branch, zoning, flu>>

\* The reading of one kind: by query_zoning_or_flu, or, on the discovery
\* branch without a candidate of the kind, the fixed "no candidate" reading.
Read(kind, layer_url, m, q) ==
    IF branch = "discovery" /\ ~Truthy(layer_url)
    THEN [result |-> NoCandidateReading(kind), sent |-> <<>>]
    ELSE query_zoning_or_flu(layer_url, geom, kind, m, q)

QueryZoning ==
    /\ stage = "zoning"
    /\ \E m \in MetaAnswers, q \in QueryAnswers :
          LET out == Read("zoning", layers.zoning_layer, m, q)
          IN  /\ zoning' = out.result
              /\ sent' = sent \o out.sent
              /\ answered' = answered \o SubSeq(<<m, q>>, 1, Len(out.sent))
    /\ stage' = "flu"
    /\ UNCHANGED <<textVars, sideVars, appRest, pid, geom, jurisdiction, branch, layers, discovery,
                   flu, outcome, cache>>

QueryFlu ==
    /\ stage = "flu"
    /\ \E m \in MetaAnswers, q \in QueryAnswers :
          LET out == Read("flu", layers.flu_layer, m, q)
          IN  /\ flu' = out.result
              /\ sent' = sent \o out.sent
              /\ answered' = answered \o SubSeq(<<m, q>>, 1, Len(out.sent))
    /\ stage' = "done"
    /\ outcome' = Shown("json", "ok", "")
    /\ UNCHANGED <<textVars, sideVars, appRest, pid, geom, jurisdiction, branch, layers, discovery,
                   zoning, cache>>

LookupNext ==
    \/ ClickLookup
    \/ Locate
    \/ Resolve
    \/ Route
    \/ Discover
    \/ QueryZoning
    \/ QueryFlu

SpecLookup == LookupInit /\ [][LookupNext]_vars


\* ---------------------------------------------------------------------------
\* The transports of the external HTTP calls, and their retrying.
\* ---------------------------------------------------------------------------

RetryTotal == 3

\* get_resilient_session: a Session whose adapter carries
\* Retry(total=3, status_forcelist=[429, 500, 502, 503, 504],
\*       allowed_methods=["GET", "POST"]).
get_resilient_session ==
    [total |-> RetryTotal, status_forcelist |-> {429, 500, 502, 503, 504}]

\* arcgis_utils.resilient_session: a Session with a User-Agent header and the
\* default adapter, which never retries.
resilient_session == [total |-> 0, status_forcelist |-> {}]

\* The module-level requests.get of the Hillsborough and Pasco lookups: a fresh
\* Session with the default adapter.
requests_get == [total |-> 0, status_forcelist |-> {}]

\* The transport each function of the pipeline sends its requests through.
TransportOf ==
    [fetch_coded_values             |-> get_resilient_session,
     scrape_pinellas_property       |-> get_resilient_session,
     lookup_unincorporated_zoning   |-> get_resilient_session,
     lookup_stpete_zoning           |-> get_resilient_session,
     lookup_hillsborough_parcel     |-> requests_get,
     lookup_hillsborough_zoning_flu |-> requests_get,
     lookup_pasco_parcel            |-> requests_get,
     lookup_pasco_zoning_flu        |-> requests_get,
     get_json                       |-> resilient_session]

ExternalCalls == DOMAIN TransportOf

\* What one attempt can meet: no response at all (status 0), or a response of
\* some status whose body is JSON or not.
NoResponse == [status |-> 0, json |-> FALSE]

Statuses == {200, 400, 404, 429, 500, 502, 503, 504}

Responses ==
    {NoResponse} \cup [status : Statuses, json : {TRUE}] \cup {[status |-> 200, json |-> FALSE]}

\* urllib3's Retry.increment as the adapter applies it: a connection or read
\* error, or a response whose status is in status_forcelist, is re-attempted
\* while the total holds out; anything else is handed to the caller.
Reattempted(transport, response, used) ==
    /\ used < transport.total
    /\ \/ response = NoResponse
       \/ response.status \in transport.status_forcelist

\* A function of the pipeline sends a request.
StartCall(site) ==
    /\ calling = "none" \/ callDone
    /\ calling' = site
    /\ tries' = <<>>
    /\ callDone' = FALSE
    /\ UNCHANGED <<textVars, appVars, lookupVars, cacheVars, pureVars>>

\* One attempt of the request under way meets a response; the transport either
\* re-attempts or hands the response (or the error) to the caller.
Attempt(response) ==
    /\ calling # "none"
    /\ ~callDone
    /\ tries' = Append(tries, response)
    /\ callDone' = ~Reattempted(TransportOf[calling], response, Len(tries))
    /\ UNCHANGED <<calling, textVars, appVars, lookupVars, cacheVars, pureVars>>

RetryInit ==
    /\ TextIdle
    /\ AppIdle
    /\ LookupIdle
    /\ NetIdle
    /\ CacheIdle
    /\ PureIdle

RetryNext ==
    \/ \E site \in ExternalCalls : StartCall(site)
    \/ \E response \in Responses : Attempt(response)

SpecRetry == RetryInit /\ [][RetryNext]_vars

\* ---------------------------------------------------------------------------
\* The caches of st.cache_data, and the resolutions that go through them.
\* ---------------------------------------------------------------------------

CodedTtl == 86400

MaxEvents == 3

Forever == 0 - 1

\* The decorator of each function that resolves a layer's code domain or a
\* city's layers: cached or not, and the ttl it was given (none: the entry
\* never expires).
Decorators ==
    [fetch_coded_values          |-> [cached |-> TRUE, ttl |-> CodedTtl],
     cached_discover_city_layers |-> [cached |-> TRUE, ttl |-> Forever],
     layer_metadata              |-> [cached |-> FALSE, ttl |-> 0]]

\* The argument tuples the functions are called with.
KeysOf ==
    [fetch_coded_values          |-> {<<"zoning_layer", "ZONING">>},
     cached_discover_city_layers |-> {<<UrlGood>>},
     layer_metadata              |-> {<<"zoning_layer">>}]

\* What the upstream holds at the moment of a fetch: the schema or the web map
\* as first published, the same after an edit upstream, or no usable answer.
Published ==
    [fetch_coded_values          |-> [RM |-> "Residential Medium", CG |-> "Commercial General"],
     cached_discover_city_layers |-> [zoning |-> "layer/3", flu |-> "layer/7"],
     layer_metadata              |-> [RM |-> "Residential Medium", CG |-> "Commercial General"]]

Edited ==
    [fetch_coded_values          |-> [k \in {"RM"} |-> "Residential Mixed"],
     cached_discover_city_layers |-> [k \in {"zoning"} |-> "layer/4"],
     layer_metadata              |-> [k \in {"RM"} |-> "Residential Mixed"]]

Upstream == {"published", "edited", "failing"}

\* The moments the clock is read at, in seconds.
Instants == {0, CodedTtl - 1, CodedTtl}

RaisedValue == [k \in {"raised"} |-> "exception"]

\* What the body of the function returns for a state of the upstream.
\* fetch_coded_values catches every exception and returns {};
\* discover_city_layers and layer_metadata raise.
Body(f, upstream) ==
    CASE upstream = "published" -> Published[f]
      [] upstream = "edited" -> Edited[f]
      [] OTHER -> IF f = "fetch_coded_values" THEN NoDomain ELSE RaisedValue

\* The entry the cache holds for a call, if it has not expired.
Live(f, key) ==
    {e \in store : /\ e.fn = f
                   /\ e.key = key
                   /\ (Decorators[f].ttl = Forever \/ clock - e.at < Decorators[f].ttl)}

Event(s, f, key, fetched, value, age) ==
    [fn |-> f, key |-> key, fetched |-> fetched, value |-> value,
     at |-> clock, age |-> age, since |-> IF fetched THEN work[s].since ELSE Len(log)]

InFlight == Cardinality({s \in Sessions : work[s].pc # "rest"})

\* A session calls one of the functions: st.cache_data answers from a live
\* entry, and otherwise (or when the function is not decorated) the body runs.
CallCached(s, f, key) ==
    /\ work[s].pc = "rest"
    /\ Len(log) + InFlight < MaxEvents
    /\ IF Decorators[f].cached /\ Live(f, key) # {}
       THEN /\ \E e \in Live(f, key) :
                   log' = Append(log, Event(s, f, key, FALSE, e.value, clock - e.at))
            /\ UNCHANGED <<clock, store, work>>
       ELSE /\ work' = [work EXCEPT ![s] = [pc |-> "fetching", fn |-> f, key |-> key,
                                            since |-> Len(log)]]
            /\ UNCHANGED <<clock, store, log>>
    /\ UNCHANGED <<textVars, appVars, lookupVars, netVars, pureVars>>

\* The body of the function has run to its end.  A value of a decorated
\* function is still to be written to the cache; an exception, and the value
\* of an undecorated function, go straight to the caller.
Fetch(s, upstream) ==
    /\ work[s].pc = "fetching"
    /\ LET f == work[s].fn
           value == Body(f, upstream)
       IN  IF Decorators[f].cached /\ value # RaisedValue
           THEN /\ work' = [work EXCEPT ![s] = [pc |-> "storing", fn |-> f,
                                                key |-> work[s].key, since |-> work[s].since,
                                                value |-> value]]
                /\ UNCHANGED log
           ELSE /\ work' = [work EXCEPT ![s] = Resting]
                /\ log' = Append(log, Event(s, f, work[s].key, TRUE, value, 0))
    /\ UNCHANGED <<clock, store>>
    /\ UNCHANGED <<textVars, appVars, lookupVars, netVars, pureVars>>

\* A cache write that adds the new value's items to the entry already there.
Store_merging(s) ==
    /\ work[s].pc = "storing"
    /\ LET f == work[s].fn
           key == work[s].key
           new == work[s].value
           merged(old) == [k \in DOMAIN old \cup DOMAIN new |->
                              IF k \in DOMAIN new THEN new[k] ELSE old[k]]
           held == {e \in store : e.fn = f /\ e.key = key}
       IN  /\ store' = (store \ held)
                       \cup {[fn |-> f, key |-> key, at |-> clock,
                              value |-> IF held = {} THEN new
                                        ELSE merged((CHOOSE e \in held : TRUE).value)]}
           /\ log' = Append(log, Event(s, f, key, TRUE, new, 0))
    /\ work' = [work EXCEPT ![s] = Resting]
    /\ UNCHANGED clock
    /\ UNCHANGED <<textVars, appVars, lookupVars, netVars, pureVars>>

\* st.cache_data writes the value under the key, replacing what was there, and
\* hands it to the caller.
Store(s) ==
    /\ work[s].pc = "storing"
    /\ LET f == work[s].fn
           key == work[s].key
       IN  /\ store' = {e \in store : ~(e.fn = f /\ e.key = key)}
                       \cup {[fn |-> f, key |-> key, value |-> work[s].value, at |-> clock]}
           /\ log' = Append(log, Event(s, f, key, TRUE, work[s].value, 0))
    /\ work' = [work EXCEPT ![s] = Resting]
    /\ UNCHANGED clock
    /\ UNCHANGED <<textVars, appVars, lookupVars, netVars, pureVars>>

\* Time passes between the runs of the script.
Tick ==
    /\ \A s \in Sessions : work[s].pc = "rest"
    /\ \E t \in Instants : t > clock /\ clock' = t
    /\ UNCHANGED <<store, work, log>>
    /\ UNCHANGED <<textVars, appVars, lookupVars, netVars, pureVars>>

CacheInit ==
    /\ TextIdle
    /\ AppIdle
    /\ LookupIdle
    /\ NetIdle
    /\ CacheIdle
    /\ PureIdle

CacheNext ==
    \/ \E s \in Sessions, f \in DOMAIN Decorators : \E key \in KeysOf[f] : CallCached(s, f, key)
    \/ \E s \in Sessions, upstream \in Upstream : Fetch(s, upstream)
    \/ \E s \in Sessions : Store(s)
    \/ Tick

SpecCache == CacheInit /\ [][CacheNext]_vars

\* ---------------------------------------------------------------------------
\* The functions of arcgis_utils.py and streamlit_app.py applied on their own.
\* ---------------------------------------------------------------------------

MaxFields == 3

SampleFields == {F_OBJECTID, F_ZONECLASS, F_ZONEDESC, F_FLU, F_STATUS}

\* The field lists of a layer's metadata.
FieldLists == SeqsUpTo(SampleFields, MaxFields)

Kinds == {"zoning", "flu"}

Applied(f, a, r) ==
    /\ applied = "none"
    /\ applied' = f
    /\ args' = a
    /\ returned' = r
    /\ UNCHANGED <<textVars, appVars, lookupVars, netVars, cacheVars>>

PickField ==
    \E fields \in FieldLists, kind \in Kinds :
        Applied("pick_best_code_field", [fields |-> fields, kind |-> kind],
                pick_best_code_field(fields, kind))

\* A coded-value domain of the layer that holds other codes than the sampled
\* feature's.
OtherDomain == [k \in {"XX"} |-> "Other (domain)"]

\* What the two fetch_coded_values calls of one lookup can return.
DomainCalls == {[fetched |-> TRUE, map |-> m] : m \in {LayerDomain, OtherDomain, NoDomain}}

DescribeUnincorporated ==
    \E geo \in GeocodeAnswers, z \in LayerAnswers, f \in LayerAnswers,
       zoningCall \in DomainCalls, fluCall \in DomainCalls :
        Applied("lookup_unincorporated_zoning",
                [z |-> z, f |-> f, zoningCall |-> zoningCall, fluCall |-> fluCall],
                lookup_unincorporated_zoning(<<"200 CENTRAL AVE">>, geo, z, f,
                                             zoningCall, fluCall).result)

\* What an item document may hold at each of the places looked at.
Held == {Missing, ShortId, WebmapId, OtherWebmapId}

ItemDocs == {ItemDoc(w, v, c) : w \in Held, v \in Held, c \in Held}

ExtractWebmapId ==
    \E item_meta \in ItemDocs, item_data \in ItemDocs :
        Applied("extract_webmap_id", [item_meta |-> item_meta, item_data |-> item_data],
                extract_webmap_id(item_meta, item_data))

MaxLayers == 3

\* Operational layers as a web map lists them.
SampleLayers ==
    {Layer("Zoning", Null, "url_zoning"), Layer("Future Land Use", Null, "url_flu"),
     Layer("Zoning and Land Use", Null, "url_both"), Layer("Parcels", Null, "url_parcels"),
     Layer("Zoning Overlay", Null, "url_overlay"),
     Layer(Null, "ArcGISFeatureLayer", "url_other"), Layer("Zoning", Null, Null)}

WebMaps == SeqsUpTo(SampleLayers, MaxLayers)

\* pick_candidate_layers on the layers extract_operational_layers_from_webmap
\* took from a web map.
Classify ==
    \E lyrs \in WebMaps :
        Applied("pick_candidate_layers", [lyrs |-> lyrs],
                pick_candidate_layers(OperationalLayers(lyrs)))

\* The choice pinellas_lookup makes for each kind among the candidates a
\* successful discovery gave.
PickBest ==
    \E lyrs \in WebMaps :
        LET candidates == pick_candidate_layers(OperationalLayers(lyrs))
        IN  Applied("pick_best_layer_from_candidates", candidates,
                    [zoning |-> pick_best_layer_from_candidates(candidates.zoning),
                     flu |-> pick_best_layer_from_candidates(candidates.flu)])

\* The layer URLs query_zoning_or_flu is called with: None and "" as well.
LayerUrls == {Null, "", "url_zoning"}

\* What a spatial query can answer besides QueryAnswers: a feature whose code
\* attribute is a number, and one whose attribute object is empty.
PureQueryAnswers ==
    QueryAnswers
    \cup {Http("ok", TRUE, <<Feature([ZONECLASS |-> Number7, FLU |-> Number7], Null)>>),
          Http("ok", TRUE, <<Feature(NoAttributes, Null)>>),
          Http("ok", TRUE, <<Feature([ZONEDESC |-> "layer text"], Null)>>)}

QueryLayer ==
    \E layer_url \in LayerUrls, kind \in Kinds, m \in MetaAnswers, q \in PureQueryAnswers :
        Applied("query_zoning_or_flu",
                [layer_url |-> layer_url, kind |-> kind, meta |-> m, query |-> q],
                query_zoning_or_flu(layer_url, "polygon", kind, m, q).result)

PureInit ==
    /\ TextIdle
    /\ AppIdle
    /\ LookupIdle
    /\ NetIdle
    /\ CacheIdle
    /\ PureIdle

PureNext ==
    \/ PickField
    \/ DescribeUnincorporated
    \/ ExtractWebmapId
    \/ Classify
    \/ PickBest
    \/ QueryLayer

SpecPure == PureInit /\ [][PureNext]_vars
-----------------------------------------------------------------------------
(* Properties of the text helpers                                          *)

RemoveDashes(s) == Replace(s, Dash, <<>>)

\* Positions of the dashes in XX-XX-XX-XXXXX-XXX-XXXX.
DashPositions == {3, 6, 9, 15, 19}

\* C1: every dashless input of exactly 18 digits is reshaped into digit groups
\* of 2-2-2-5-3-4 separated by dashes, and removing the dashes gives the input back.
C1_DashedRoundTrip ==
    (fn = "normalized_parcel" /\ Len(input) = PinellasIdLen /\ AllDigits(input)) =>
        LET r == result.text
        IN  /\ Len(r) = PinellasIdLen + Cardinality(DashPositions)
            /\ \A i \in 1..Len(r) : (r[i] = Dash) <=> (i \in DashPositions)
            /\ RemoveDashes(r) = input

\* 193117731660010010 -> 19-31-17-73166-001-0010
C1_Witness ==
    /\ fn = "normalized_parcel"
    /\ input = BaseId
    /\ result.text = <<"1", "9", "-", "3", "1", "-", "1", "7", "-", "7", "3", "1", "6", "6",
                       "-", "0", "0", "1", "-", "0", "0", "1", "0">>

\* The allow-list as the specification words it: letters, digits, dash,
\* whitespace, period.
OutsideAllowList(c) == c \notin (Letters \cup Digits \cup Whitespace \cup {"-", "."})

HasOutsideAllowList(s) == \E i \in 1..Len(s) : OutsideAllowList(s[i])

\* C3: validation gives exactly one of four outcomes, tested in the order
\* empty, too long (over 30), invalid characters, valid.
C3_FourOutcomesInOrder ==
    fn = "validate_parcel_id" =>
        /\ result.ok = (result.msg = "")
        /\ result.msg \in {"", MsgEmpty, MsgTooLong, MsgInvalid}
        /\ (result.msg = MsgEmpty) <=> (input = <<>>)
        /\ (result.msg = MsgTooLong) <=> (Len(input) > 30)
        /\ (result.msg = MsgInvalid) <=>
               (input # <<>> /\ Len(input) <= 30 /\ HasOutsideAllowList(input))

\* A text that is both too long and off the allow-list is reported as too long.
C3_Witness ==
    /\ fn = "validate_parcel_id"
    /\ Len(input) > MaxIdLen
    /\ HasOutsideAllowList(input)
    /\ result = Verdict(FALSE, MsgTooLong)

\* Length of the leading token of s: the characters before the first whitespace.
RECURSIVE TokenLen(_)
TokenLen(s) ==
    IF s = <<>> \/ Head(s) \in Whitespace THEN 0 ELSE 1 + TokenLen(Tail(s))

\* C6: a land-use text that begins with digits loses its leading code token and
\* keeps only the description, unless nothing remains after the code, and then
\* the whole text is kept; a text that does not begin with a digit is returned
\* unchanged apart from surrounding whitespace.
C6_LeadingCodeRemoved ==
    fn = "strip_dor_code" =>
        LET text == Strip(input)
            rest == Strip(SubSeq(text, TokenLen(text) + 1, Len(text)))
        IN  IF text # <<>> /\ IsDigit(text[1])
            THEN result.text = (IF rest = <<>> THEN text ELSE rest)
            ELSE result.text = text


\* Requests that carry the identifier typed into the input.
IdentifierTargets == {"pcpao_search", "pcpao_detail", "parcel_source", ParcelsLayer}

\* C2: an identifier with a character outside the allow-list is rejected by
\* validation and no upstream call is issued for it, in every county: the
\* property handler that ran on such an identifier sent no request carrying it.
C2_InvalidNeverReachesUpstream ==
    HasOutsideAllowList(parcel_id_input)
        => \A i \in 1..Len(sent) : sent[i].to \notin IdentifierTargets

\* C4: every parcel-source request holds the identifier between single quotes
\* with each embedded single quote doubled.
C4_QuotesDoubled ==
    \A i \in 1..Len(sent) :
        sent[i].to \in {"parcel_source", ParcelsLayer}
            => sent[i].literal
                   = <<Quote>> \o Replace(sent[i].arg, Quote, <<Quote, Quote>>) \o <<Quote>>

\* The outcomes that report "no such parcel".
NotFoundShown == {Error(ErrFolioNotFound), Error(ErrParcelNotFound), Error(ErrPcpaoNotFound)}

\* C5: "not found" is reported only when the source answered with zero features;
\* a lookup one of whose requests failed (network error, HTTP error status,
\* malformed body) is never reported as "not found".
C5_NotFoundMeansSourceAnswered ==
    shown \in NotFoundShown => \A i \in 1..Len(answered) : ~RequestFailed(answered[i])

\* C8: the branch of a Pinellas zoning lookup is a function of the parcel's
\* location alone: two lookups of the same location take the same branch,
\* whatever tax district the appraiser reports for the parcel.
C8_BranchFromLocationOnly ==
    (/\ routed.branch # "none"
     /\ prevRouted.branch # "none"
     /\ routed.location = prevRouted.location)
        => routed.branch = prevRouted.branch

\* The boundary layer answered the running lookup with a feature set: its
\* answer is the second one, after the parcel layer's.
Resolved == Len(answered) >= 2 /\ ~RaisesChecked(answered[2])

\* The features of that answer, and the name attribute of the first as the
\* layer holds it.
BoundaryFeatures == Features(answered[2])
FirstBoundaryName ==
    IF "attributes" \in DOMAIN BoundaryFeatures[1]
    THEN Get(BoundaryFeatures[1].attributes, MunicipalNameField, <<Null>>)
    ELSE <<Null>>

\* Some character of the text is not whitespace.
NonBlank(t) == \E i \in 1..Len(t) : t[i] \notin Whitespace \cup {Null, Missing}

\* C7 as stated: with one or more boundary features the jurisdiction is the
\* first feature's name, and the sentinel is returned only for zero features.
C7_SentinelOnlyWithoutFeatures ==
    Resolved =>
        /\ BoundaryFeatures # <<>> => jurisdiction = FirstBoundaryName
        /\ jurisdiction = Sentinel => BoundaryFeatures = <<>>

\* C7 amended: with one or more boundary features whose first has a name that
\* is not blank, the jurisdiction is that name without its surrounding
\* whitespace, and never the sentinel; with zero features, or a first feature
\* whose name is absent, null or blank, it is the sentinel.
C7_FirstNameOrSentinel ==
    Resolved =>
        IF BoundaryFeatures # <<>> /\ NonBlank(FirstBoundaryName)
        THEN /\ jurisdiction = Strip(FirstBoundaryName)
             /\ jurisdiction # Sentinel
        ELSE jurisdiction = Sentinel

\* A boundary answer with features was resolved to the sentinel.
C7_Witness ==
    /\ Resolved
    /\ BoundaryFeatures # <<>>
    /\ jurisdiction = Sentinel

\* C9: layer discovery never raises: a lookup that went to discovery does not
\* end with an exception.
C9_DiscoveryNeverRaises == branch = "discovery" => stage # "raised"

\* C10: a lookup of a jurisdiction with neither a static pair nor the county
\* pair, for which discovery failed or was not possible, ends with a
\* successful result whose zoning and FLU hold the placeholder; it neither
\* reports an error status nor raises.
C10_DegradesToPlaceholder ==
    (branch = "discovery" /\ stage \in {"done", "raised"} /\ ~discovery.ok)
        => /\ outcome = Shown("json", "ok", "")
           /\ zoning.code = ContactCity
           /\ flu.code = ContactCity
-----------------------------------------------------------------------------
(* Properties of the router of pinellas_lookup                             *)

\* The layer or service a request is addressed to.
Addressee(r) == IF r.to = "layer_metadata" THEN r.arg ELSE r.to

StaticTargets ==
    UNION {{KnownCityOverrides[j].zoning_layer, KnownCityOverrides[j].flu_layer} :
             j \in DOMAIN KnownCityOverrides}

CountyTargets == {UnincorporatedLayers.zoning_layer, UnincorporatedLayers.flu_layer}

\* The branch a request belongs to; the parcel and boundary queries precede
\* the router and belong to none.
BranchOf(r) ==
    IF Addressee(r) \in {ParcelsLayer, MunicipalBoundaryLayer} THEN "none"
    ELSE IF Addressee(r) \in StaticTargets THEN "static"
    ELSE IF Addressee(r) \in CountyTargets THEN "unincorporated"
    ELSE "discovery"

\* The branches the running lookup has sent requests for.
TriedBranches == {BranchOf(sent[i]) : i \in 1..Len(sent)} \ {"none"}

\* The sampled jurisdiction names that begin with "unincorporated" in some
\* letter case.
UnincorporatedSpellings == {"Unincorporated Pinellas County", "UNINCORPORATED", "Unincorporated"}

\* C11 as stated: one branch per lookup, the static pair first, then the county
\* pair if the jurisdiction is the unincorporated sentinel, else discovery; no
\* request of another branch is ever sent.
C11_SentinelTakesCountyPair ==
    IF branch = "none" THEN TriedBranches = {}
    ELSE /\ branch = (IF jurisdiction \in DOMAIN KnownCityOverrides THEN "static"
                      ELSE IF jurisdiction = Sentinel THEN "unincorporated"
                      ELSE "discovery")
         /\ TriedBranches \subseteq {branch}

\* C11 amended: one branch per lookup, the static pair first, then the county
\* pair if the jurisdiction name begins with "unincorporated" in any letter
\* case, else discovery; whatever happens inside the branch, no request of
\* another branch is ever sent.
C11_OneBranchByPriority ==
    IF branch = "none" THEN TriedBranches = {}
    ELSE /\ branch = (IF jurisdiction \in DOMAIN KnownCityOverrides THEN "static"
                      ELSE IF jurisdiction[1] \in UnincorporatedSpellings THEN "unincorporated"
                      ELSE "discovery")
         /\ TriedBranches \subseteq {branch}

\* A jurisdiction with a static pair and a viewer application: both readings
\* of the static pair failed and the lookup ended without trying discovery.
C11_Witness ==
    /\ stage = "done"
    /\ branch = "static"
    /\ Truthy(AppUrl(AppInfo(jurisdiction)))
    /\ ~zoning.ok /\ ~flu.ok
    /\ TriedBranches = {"static"}

\* The reading of a kind in the running lookup.
ReadingOf(kind) == IF kind = "zoning" THEN zoning ELSE flu

\* The i-th request fetched a layer's schema, the schema arrived, and no field
\* of it is a likely code field for the kind.
NoCodeFieldAt(i) ==
    /\ sent[i].to = "layer_metadata"
    /\ ~RaisesChecked(answered[i])
    /\ pick_best_code_field(answered[i].payload, sent[i].field) = 0

\* C12: when the schema of a layer has no suitable code field, the spatial
\* query of that layer is still sent, and the reading of the kind is not a
\* failure with an empty code.
C12_NoCodeFieldStillReads ==
    \A i \in 1..Len(sent) :
        NoCodeFieldAt(i) =>
            /\ i < Len(sent)
            /\ sent[i + 1] = LayerReq(sent[i].arg, geom)
            /\ ~(~ReadingOf(sent[i].field).ok /\ ReadingOf(sent[i].field).code = "")

\* C13: whatever fails upstream, in whatever stage, the lookup ends with a
\* result value: no exception leaves pinellas_lookup and reaches the UI.
C13_NoExceptionReachesUI == outcome.shown # "exception"
-----------------------------------------------------------------------------
(* Properties of the zoning lookups of app.py                              *)

\* The FLU layer that goes with each zoning layer.
FluLayerOf ==
    [l \in {"stpete_zoning", "clearwater_zoning", "unincorporated_zoning",
            "hillsborough_zoning", "pasco_zoning"} |->
        CASE l = "stpete_zoning" -> "stpete_flu"
          [] l = "clearwater_zoning" -> "clearwater_flu"
          [] l = "unincorporated_zoning" -> "unincorporated_flu"
          [] l = "hillsborough_zoning" -> "hillsborough_flu"
          [] l = "pasco_zoning" -> "pasco_flu"]

\* C14: a failure of one kind's resolution does not abort the lookup: whatever
\* the zoning layer answered, the FLU layer of the same lookup is asked too.
C14_FluAttemptedAfterZoning ==
    \A i \in 1..Len(sent) :
        sent[i].to \in DOMAIN FluLayerOf =>
            \E j \in 1..Len(sent) : sent[j].to = FluLayerOf[sent[i].to]

\* The geometry the property lookup captured for the county whose zoning
\* lookup ran last; the Pinellas property lookup captures none.
CapturedGeometry ==
    CASE county = "Hillsborough" -> session.hillsborough_geometry
      [] county = "Pasco" -> session.pasco_geometry
      [] OTHER -> Null

ZoningLookupTargets ==
    DOMAIN FluLayerOf \cup {FluLayerOf[l] : l \in DOMAIN FluLayerOf} \cup {"largo_parcels"}

GeocodeSent == \E j \in 1..Len(sent) : sent[j].to = "geocode"

-----------------------------------------------------------------------------
(* Properties of the parcel lookups of app.py                              *)

\* The handler that ran last was a Hillsborough or Pasco property lookup that
\* queried the parcel source.
ParcelSourceQueried ==
    /\ county \in {"Hillsborough", "Pasco"}
    /\ sent # <<>>
    /\ sent[1].to = "parcel_source"

\* The identifier formats of that lookup, in the order they are tried.
FormatsInOrder ==
    IF county = "Hillsborough" THEN folio_formats(parcel_id_input)
    ELSE parcel_formats(parcel_id_input)

\* The address a parcel feature carries.
AddressOf(feature) ==
    IF county = "Hillsborough"
    THEN Get(feature.attributes, "SITEADD", Get(feature.attributes, "SITUSADD1", ""))
    ELSE Or(Get(feature.attributes, "SITEADD", Null), Get(feature.attributes, "SITUSADD1", ""))

\* C17: the identifier formats are queried in their fixed order; every query
\* before the last one issued was answered without features, so nothing is
\* queried after the first answer with features, and the record stored is that
\* answer's first feature.
C17_FirstMatchWins ==
    ParcelSourceQueried =>
        /\ Len(sent) <= Len(FormatsInOrder)
        /\ \A i \in 1..Len(sent) : sent[i].arg = FormatsInOrder[i]
        /\ \A i \in 1..(Len(sent) - 1) :
              ~RaisesUnchecked(answered[i]) /\ answered[i].payload = <<>>
        /\ shown = Success(MsgRetrieved) =>
              LET hit == answered[Len(sent)]
              IN  /\ hit.payload # <<>>
                  /\ session.api_address = AddressOf(hit.payload[1])
                  /\ CapturedGeometry = hit.payload[1].geometry

\* The first folio format found nothing, the second found the parcel, and
\* the third was not queried.
C17_Witness ==
    /\ county = "Hillsborough"
    /\ ParcelSourceQueried
    /\ Len(sent) = 2
    /\ answered[1].payload = <<>>
    /\ answered[2].payload # <<>>
    /\ shown = Success(MsgRetrieved)

\* ---------------------------------------------------------------------------
\* Claims about the retrying of external calls
\* ---------------------------------------------------------------------------

TransientStatuses == {429, 500, 502, 503, 504}

TransientFailure(response) == response.status \in TransientStatuses

\* C18: every external call of the pipeline is re-attempted only after an
\* attempt that failed with a transient status (429, 500, 502, 503, 504), at
\* most the retry budget of 3 times, and a call that is given up on a transient
\* status has had its budget of re-attempts; an attempt that fails otherwise
\* (another 4xx, a body that is not JSON) is the only attempt of its call.
C18_RetriedOnlyOnTransientStatus ==
    /\ \A i \in 1..(Len(tries) - 1) : TransientFailure(tries[i])
    /\ Len(tries) <= RetryTotal + 1
    /\ (Len(tries) >= 1 /\ ~TransientFailure(tries[1])) => Len(tries) = 1
    /\ (callDone /\ TransientFailure(tries[Len(tries)])) => Len(tries) = RetryTotal + 1

\* ---------------------------------------------------------------------------
\* Claims about the caches
\* ---------------------------------------------------------------------------

\* The functions through which a layer's code domain is resolved.
DomainResolvers == {"fetch_coded_values", "layer_metadata"}

\* Resolution j began after resolution i had returned, for the same arguments.
Again(i, j) ==
    /\ i < j
    /\ log[j].since >= i
    /\ log[i].fn = log[j].fn
    /\ log[i].key = log[j].key

\* C15: on every path that resolves a layer's code domain, a resolution that
\* follows a fetching resolution of the same (layer, field) within the long
\* TTL performs no schema fetch and returns the same code->description map.
C15_SecondResolutionFromCache ==
    \A i, j \in 1..Len(log) :
        (/\ Again(i, j)
         /\ log[i].fn \in DomainResolvers
         /\ log[i].fetched
         /\ log[j].at - log[i].at < CodedTtl)
        => (~log[j].fetched /\ log[j].value = log[i].value)

\* The values the body of a function can return whole.
Whole(f) == {Body(f, u) : u \in Upstream}

\* Event i is a fetch of the arguments of entry e that returned e's value.
FetchOf(e, i) ==
    /\ log[i].fetched
    /\ log[i].fn = e.fn
    /\ log[i].key = e.key
    /\ log[i].value = e.value

C20_ServedWithinTtl ==
    \A j \in 1..Len(log) : ~log[j].fetched => log[j].age < CodedTtl

\* ---------------------------------------------------------------------------
\* Claims about the identifier reshaping, once more
\* ---------------------------------------------------------------------------

\* C21: the reshaping changes the (trimmed) identifier only when it is a single
\* run of exactly 18 digits; every other input, an 18-character one with a
\* non-digit included, is passed through as it was.
C21_DashesOnlyFor18Digits ==
    fn = "normalized_parcel" =>
        LET p == Strip(input)
        IN  result.text # p => (Len(p) = PinellasIdLen /\ AllDigits(p))

\* ---------------------------------------------------------------------------
\* Claims about field selection, web-map ids, layer candidates and readings
\* ---------------------------------------------------------------------------

\* The highest score among the fields of a list, -1 for the empty list.
TopScore(fields, kind) ==
    IF fields = <<>> THEN 0 - 1
    ELSE LET scores == {FieldScore(fields[i], kind) : i \in 1..Len(fields)}
         IN  CHOOSE m \in scores : \A n \in scores : n <= m

\* C22: field selection returns the earliest field of the highest score (text
\* score for the kind plus the bonus of a coded-value domain) when that score
\* is positive, and no field when it is not or the list is empty.
C22_EarliestTopScoringField ==
    applied = "pick_best_code_field" =>
        LET fields == args.fields
            kind == args.kind
            top == TopScore(fields, kind)
        IN  IF top <= 0 THEN returned = 0
            ELSE /\ returned \in 1..Len(fields)
                 /\ FieldScore(fields[returned], kind) = top
                 /\ \A j \in 1..(returned - 1) : FieldScore(fields[j], kind) < top

\* Two fields tie on the highest score and the earlier one is returned; the
\* score of the later one holds the bonus.
C22_Witness ==
    /\ applied = "pick_best_code_field"
    /\ returned = 1
    /\ \E j \in 2..Len(args.fields) :
          /\ FieldScore(args.fields[j], args.kind) = FieldScore(args.fields[1], args.kind)
          /\ args.fields[j].domain.type = "codedValue"
          /\ _score_field(args.fields[j], args.kind) > 0

\* C23: the description of a returned code comes from the layer's coded-value
\* domain when it holds the code and else from the jurisdiction's static table
\* when that holds the code, also when the domain is non-empty and lacks the
\* code (the later links of the chain are left open here).
C23_DomainThenStaticTable ==
    (/\ applied = "lookup_unincorporated_zoning"
     /\ returned.success
     /\ args.z.payload # <<>>)
    => LET code == Get(FirstAttrs(args.z), "CODE", "")
           domain == args.zoningCall.map
       IN  IF code \in DOMAIN domain
           THEN returned.zoning_description = T(domain[code])
           ELSE code \in DOMAIN UNINCORPORATED_ZONING_DESCRIPTIONS
                => returned.zoning_description
                   = T(UNINCORPORATED_ZONING_DESCRIPTIONS[code])

\* A string of 32 characters, among the strings the documents hold.
Is32(v) == v \in {WebmapId, OtherWebmapId}

\* The first value of 32 characters in a list of places, Null when none is.
RECURSIVE First32(_)
First32(places) ==
    IF places = <<>> THEN Null
    ELSE IF Is32(Head(places)) THEN Head(places)
    ELSE First32(Tail(places))

\* C24 as stated: the data document before the metadata document, in each the
\* top-level webmap key and the values.config.webmap path; none when no such
\* place holds a string of 32 characters.
C24_TwoPlacesPerDocument ==
    applied = "extract_webmap_id" =>
        returned = First32(<<args.item_data.webmap, args.item_data.config_webmap,
                             args.item_meta.webmap, args.item_meta.config_webmap>>)

\* C24, amended: the data document before the metadata document, in each the
\* top-level webmap key, then values.webmap, then values.config.webmap; the
\* first string of 32 characters met is returned, none when there is none,
\* and a value of another length never.
C24_ThreePlacesPerDocument ==
    applied = "extract_webmap_id" =>
        /\ returned = First32(<<args.item_data.webmap, args.item_data.values_webmap,
                                args.item_data.config_webmap, args.item_meta.webmap,
                                args.item_meta.values_webmap, args.item_meta.config_webmap>>)
        /\ returned # ShortId

\* The data document holds an identifier at values.webmap only, next to a
\* shorter string, the metadata document another at its top level: the data
\* document's is returned.
C24_Witness ==
    /\ applied = "extract_webmap_id"
    /\ args.item_data = ItemDoc(ShortId, WebmapId, Missing)
    /\ args.item_meta.webmap = OtherWebmapId
    /\ returned = WebmapId

\* The places of a web map's layers that have a query URL and a title among
\* the given ones.
PlacesOf(lyrs, titles) ==
    {i \in 1..Len(lyrs) : Truthy(lyrs[i].url) /\ lyrs[i].title \in titles}

\* The k-th smallest member of a set of places.
KthPlace(places, k) == CHOOSE i \in places : Cardinality({j \in places : j < i}) = k - 1

\* The candidates are the layers at the given places, in the web map's order.
CandidatesAre(candidates, lyrs, places) ==
    /\ Len(candidates) = Cardinality(places)
    /\ \A k \in 1..Len(candidates) :
          /\ candidates[k].title = lyrs[KthPlace(places, k)].title
          /\ candidates[k].url = lyrs[KthPlace(places, k)].url
          /\ Truthy(candidates[k].url)

\* C25: a layer of the web map is a zoning candidate exactly when its title
\* matches the zone/zoning pattern and an FLU candidate exactly when its title
\* matches the future / land use / flum / flu pattern, each test on its own;
\* the candidates keep the web map's order and carry its non-empty query URL.
C25_CandidatesByTitle ==
    applied = "pick_candidate_layers" =>
        /\ CandidatesAre(returned.zoning, args.lyrs, PlacesOf(args.lyrs, ZoneTitles))
        /\ CandidatesAre(returned.flu, args.lyrs, PlacesOf(args.lyrs, FluTitles))

\* A web map with a layer of both kinds after a layer of neither, and a
\* zoning layer without URL: one candidate of each kind, the same layer.
C25_Witness ==
    /\ applied = "pick_candidate_layers"
    /\ args.lyrs = <<Layer("Parcels", Null, "url_parcels"), Layer("Zoning", Null, Null),
                     Layer("Zoning and Land Use", Null, "url_both")>>
    /\ returned.zoning = <<DiscoveredLayer("Zoning and Land Use", "url_both")>>
    /\ returned.flu = returned.zoning

\* The terms of score() told apart by kind: what a title earns from the words
\* of one kind alone, with the deductions for "overlay" and "historic".
KindScore(title, kind) ==
    IF kind = "zoning"
    THEN CASE title \in {"Zoning", "Zoning and Land Use"} -> 50
           [] title = "Zoning Overlay" -> 40
           [] OTHER -> 0
    ELSE CASE title = "Future Land Use" -> 50
           [] title = "Zoning and Land Use" -> 25
           [] title = "Zoning Overlay" -> 0 - 10
           [] OTHER -> 0

\* The URL is that of a candidate no other candidate outscores.
BestBy(url, candidates, score(_)) ==
    \E i \in 1..Len(candidates) :
        /\ candidates[i].url = url
        /\ \A j \in 1..Len(candidates) : score(candidates[j].title) <= score(candidates[i].title)

\* C26 as stated: the layer chosen for a kind is a best-scoring one of that
\* kind's candidates under that kind's own title score, and none is chosen
\* exactly when the kind has no candidate.
C26_BestByKindScore ==
    applied = "pick_best_layer_from_candidates" =>
        \A kind \in Kinds :
            LET ZScore(t) == KindScore(t, "zoning")
                FScore(t) == KindScore(t, "flu")
            IN  IF args[kind] = <<>> THEN returned[kind] = Null
                ELSE IF kind = "zoning" THEN BestBy(returned[kind], args[kind], ZScore)
                ELSE BestBy(returned[kind], args[kind], FScore)

\* C26, amended: the layer chosen for a kind is a best-scoring one of that
\* kind's candidates under the one title score used for both kinds; its URL
\* belongs to the kind's candidates and none is chosen exactly when the kind
\* has no candidate.
C26_BestBySharedScore ==
    applied = "pick_best_layer_from_candidates" =>
        \A kind \in Kinds :
            IF args[kind] = <<>> THEN returned[kind] = Null
            ELSE /\ returned[kind] # Null
                 /\ BestBy(returned[kind], args[kind], TitleScore)

\* Two candidates of each kind with different scores; the later one scores
\* higher for zoning and is chosen, no FLU candidate exists beside it.
C26_Witness ==
    /\ applied = "pick_best_layer_from_candidates"
    /\ Len(args.zoning) = 2
    /\ TitleScore(args.zoning[1].title) < TitleScore(args.zoning[2].title)
    /\ returned.zoning = args.zoning[2].url
    /\ Len(args.flu) = 2
    /\ returned.flu = "url_both"

\* ---------------------------------------------------------------------------
\* Claims about the order of the stages of pinellas_lookup
\* ---------------------------------------------------------------------------

\* The stage a request belongs to: 1 parcel locate, 2 jurisdiction resolve,
\* 4 discovery, 5 code resolution (the router, 3, sends nothing itself).
StageOf(r) ==
    IF r.to = ParcelsLayer THEN 1
    ELSE IF r.to = MunicipalBoundaryLayer THEN 2
    ELSE IF r.to = "portal_item" THEN 4
    ELSE 5

\* The parcel query was answered and gave no parcel geometry.
ParcelNotFound ==
    /\ Len(sent) >= 1
    /\ ~RaisesChecked(answered[1])
    /\ pinellas_get_parcel_geometry(Features(answered[1])).err # ""

\* C27: the requests of one lookup are sent stage after stage (parcel locate,
\* jurisdiction resolve, discovery, code resolution), each after the answer to
\* the one before; a later stage is entered only with what the earlier stage
\* gave; and when the parcel is not found, nothing but the parcel query is
\* sent and no jurisdiction, branch, discovery or reading exists.
C27_StagesInOrder ==
    /\ Len(answered) = Len(sent)
    /\ \A i, j \in 1..Len(sent) : i < j => StageOf(sent[i]) <= StageOf(sent[j])
    /\ Cardinality({i \in 1..Len(sent) : StageOf(sent[i]) <= 2}) <= 2
    /\ \A i \in 1..Len(sent) :
          /\ StageOf(sent[i]) >= 2 => (StageOf(sent[1]) = 1 /\ geom # Null)
          /\ StageOf(sent[i]) >= 4 => (StageOf(sent[2]) = 2 /\ branch # "none")
    /\ ParcelNotFound =>
          /\ Len(sent) = 1
          /\ jurisdiction = <<>>
          /\ branch = "none"
          /\ discovery = NoDiscovery
          /\ zoning = NoReading
          /\ flu = NoReading

\* A lookup that went through every stage: parcel query, boundary query, the
\* three discovery requests, then schema and spatial query of both kinds.
C27_Witness ==
    /\ stage = "done"
    /\ branch = "discovery"
    /\ Len(sent) = 9
    /\ {StageOf(sent[i]) : i \in 1..Len(sent)} = {1, 2, 4, 5}
    /\ zoning.ok
    /\ flu.ok

\* ---------------------------------------------------------------------------
\* Claims about the session of app.py across lookups
\* ---------------------------------------------------------------------------

\* The zoning lookup that ran last queried its layers at the centroid of the
\* stored parcel geometry.
UsedStoredGeometry ==
    /\ county \in {"Hillsborough", "Pasco"}
    /\ \E i \in 1..Len(sent) : sent[i].to \in ZoningLookupTargets /\ sent[i].arg = "centroid"

\* C28: whenever a zoning/FLU lookup uses a stored parcel geometry, the
\* geometry and the address in the session are those of one parcel: the
\* property lookup that stored the address stored that geometry.
C28_GeometryOfTheAddress ==
    UsedStoredGeometry =>
        \E f \in SwfwmdFeatures :
            /\ f.geometry = CapturedGeometry
            /\ AddressOf(f) = session.api_address

\* C29: a property lookup or a zoning/FLU lookup that ends in an error leaves
\* the session as it was: address, city, zip, owner, land use, zoning, FLU,
\* land areas and the stored geometries keep their values.
C29_FailedLookupKeepsSession ==
    [][shown'.level = "error" => session' = session]_vars

\* A Hillsborough or Pasco property lookup queried the parcel source and
\* failed while the session held an earlier parcel with its geometry.
C29_Witness ==
    /\ shown.level = "error"
    /\ ParcelSourceQueried
    /\ session.api_address = "100 MAIN ST"
    /\ CapturedGeometry # Null

\* ---------------------------------------------------------------------------
\* The result of query_zoning_or_flu
\* ---------------------------------------------------------------------------

\* The values that are Python strings: every sampled value but None, an
\* absent value and a number.
IsString(v) == v \notin {Null, Missing} \cup JsonNumbers

\* The first feature of the spatial query's answer, with attributes.
FeatureReturned(q) ==
    /\ ~RaisesChecked(q)
    /\ Features(q) # <<>>
    /\ "attributes" \in DOMAIN Features(q)[1]
    /\ DOMAIN Features(q)[1].attributes # {}

\* C30: every result of query_zoning_or_flu has, when ok is false, a
\* non-empty error and empty code and description; when ok is true, an
\* intersecting feature in the query's answer, an empty error and a code that
\* is a string, the empty string when the feature's code attribute is null.
C30_ResultShape ==
    applied = "query_zoning_or_flu" =>
        /\ returned.ok \in BOOLEAN
        /\ ~returned.ok =>
              /\ returned.error # ""
              /\ returned.code = ""
              /\ returned.description = ""
        /\ returned.ok =>
              /\ FeatureReturned(args.query)
              /\ returned.error = ""
              /\ IsString(returned.code)
              /\ Get(returned.raw, returned.code_field, Null) = Null => returned.code = ""

\* A feature whose code attribute is null was read.
C30_Witness ==
    /\ applied = "query_zoning_or_flu"
    /\ returned.ok
    /\ returned.code_field = "FLU"
    /\ "FLU" \in DOMAIN returned.raw
    /\ returned.raw["FLU"] = Null
    /\ returned.code = ""
====
